---------------------------- MODULE Spec2Model ----------------------------
(***************************************************************************)
(* A model of malakal's schedule widget: the overlap layout engine         *)
(* (widget/schedule_ui/layout.rs), the event mutation rules                *)
(* (widget/schedule_ui.rs), the edit history (widget/schedule_ui/          *)
(* interaction.rs) and the flush to the backend (app.rs).                  *)
(*                                                                         *)
(* Timestamps are integers: seconds since midnight of day 0 in the display *)
(* timezone.  The module holds several specifications over one set of      *)
(* variables; each specification leaves the variables of the others at     *)
(* their initial value.                                                    *)
(***************************************************************************)
EXTENDS Integers, Sequences, FiniteSets, TLC

VARIABLES
  lay_events,   \* layout: the Vec<Ev> handed to MarkusAlgorithm::compute
  lay_done,     \* layout: compute has returned
  lay_layout,   \* layout: id -> [group, col, width] as emitted by compute
  mv_event,     \* mutation rules: the Event the rules are applied to
  mv_prev,      \* mutation rules: the Event as it was before the last call
  mv_op,        \* mutation rules: the last rule called ("none" before any)
  mv_arg,       \* mutation rules: the timestamp passed to the last call
  mv_calls,     \* mutation rules: number of calls so far, the clock of now()
  mv_rep,       \* mutation rules: the last call repeated the call before it
  hs_events,    \* history: the Event Store, ScheduleUi::events
  hs_history,   \* history: History::changes, the top of the stack last
  hs_clock,     \* history: number of operations so far, the clock of now()
  hs_pre,       \* history: the live events as they were before the last commit
  hs_phase,     \* history: "committed" after a commit, "undone" after its undo
  hs_flushed,   \* history: a flush ran since the last commit
  hs_stale,     \* history: a Change was applied to a copy marked deleted
  ui_events,    \* frames: the Event Store, ScheduleUi::events
  ui_history,   \* frames: History::changes
  ui_ie,        \* frames: the InteractingEvent slot of the ui memory
  ui_btn,       \* frames: the pointer button held down, "up" when none
  ui_drag,      \* frames: the widget the press landed on (the toolkit's drag id)
  ui_origin,    \* frames: the region of the pressed widget holding the press origin
  ui_moved,     \* frames: the pointer has moved too much for a click
  ui_late,      \* frames: the press lasts longer than MAX_CLICK_DURATION
  ui_flags,     \* frames: the widgets whose DetectionFinishFlag is set
  ui_focus,     \* frames: the title editor has the keyboard focus
  ui_new_id,    \* frames: the event id handle_new_event stored in the ui memory
  ui_init_time, \* frames: the init_time handle_new_event stored in the ui memory
  ui_next_id,   \* frames: the next id new_event_id() gives
  ui_tick,      \* frames: number of frames so far, the clock of now()
  ui_in,        \* frames: the input of the last frame
  ui_prev,      \* frames: store, history and InteractingEvent before the last frame
  ui_res,       \* frames: what the last frame detected and decided
  ui_emit,      \* frames: what detect_interaction returned since the last press
  pp_pos,       \* pointer: the relative pointer position [x, y] of the last step
  pp_shift,     \* pointer: the shift modifier alone is held (no snapping)
  pp_time,      \* pointer: what pointer_to_datetime_auto gave in the last step
  pp_init,      \* pointer: the init_time handle_new_event stored in the ui memory
  pp_event,     \* pointer: the event of the InteractingEvent
  pp_state,     \* pointer: the state of the InteractingEvent, "None" without one
  pp_prev,      \* pointer: the event before the last step
  pp_op,        \* pointer: the last step
  pp_steps,     \* pointer: number of steps so far
  ap_events,    \* app: the Event Store
  ap_history,   \* app: the History
  ap_disk,      \* app: the events the backend holds
  ap_refresh,   \* app: refresh_requested
  ap_scope,     \* app: scope_updated
  ap_ie,        \* app: the event of the InteractingEvent, NoEvent without one
  ap_log,       \* app: the backend calls of the last tick, and its show
  ap_ok,        \* app: FALSE once update has panicked
  ap_tick,      \* app: number of ticks so far
  ap_act,       \* app: what the user did in the last tick
  ap_pre,       \* app: the state the last tick started from and passed
  bk_files,     \* backends: the events of the .ics files of the directory
  bk_index,     \* backends: the rows of the events table of the index
  bk_range,     \* backends: the range [from, to] of the last get_events
  bk_local,     \* backends: what LocalDir::get_events returned
  bk_indexed,   \* backends: what IndexedLocalDir::get_events returned
  bk_op,        \* backends: the last call
  gs_events,    \* gestures: the Event Store
  gs_history,   \* gestures: the History
  gs_ie,        \* gestures: the event of the InteractingEvent, NoEvent without one
  gs_state,     \* gestures: the state of the InteractingEvent
  gs_focus,     \* gestures: the event that has the keyboard focus, NoId when none
  gs_tick,      \* gestures: number of frames so far, the clock of now()
  gs_in,        \* gestures: the input of the last frame
  gs_prev,      \* gestures: store, History, InteractingEvent, focus before it
  gs_hot,       \* gestures: what handle_hotkeys was given and what it left
  lk_todo,      \* locks: per thread, the lock steps left of its call
  lk_held,      \* locks: per thread, the mutexes it holds in the order it took them
  lk_calls,     \* locks: calls started
  ic_event,     \* files: the event handed to update_event
  ic_file,      \* files: the properties of the VEVENT in the file of the event
  ic_read,      \* files: what get_event returned
  ic_step       \* files: "start", "written" after update_event, "read" after get_event

lay_vars == <<lay_events, lay_done, lay_layout>>

mv_vars == <<mv_event, mv_prev, mv_op, mv_arg, mv_calls, mv_rep>>

hs_vars == <<hs_events, hs_history, hs_clock, hs_pre, hs_phase, hs_flushed,
             hs_stale>>

ui_vars == <<ui_events, ui_history, ui_ie, ui_btn, ui_drag, ui_origin,
             ui_moved, ui_late, ui_flags, ui_focus, ui_new_id, ui_init_time,
             ui_next_id, ui_tick, ui_in, ui_prev, ui_res, ui_emit>>

pp_vars == <<pp_pos, pp_shift, pp_time, pp_init, pp_event, pp_state, pp_prev,
             pp_op, pp_steps>>

ap_vars == <<ap_events, ap_history, ap_disk, ap_refresh, ap_scope, ap_ie,
             ap_log, ap_ok, ap_tick, ap_act, ap_pre>>

bk_vars == <<bk_files, bk_index, bk_range, bk_local, bk_indexed, bk_op>>

gs_vars == <<gs_events, gs_history, gs_ie, gs_state, gs_focus, gs_tick, gs_in, gs_prev, gs_hot>>

lk_vars == <<lk_todo, lk_held, lk_calls>>

ic_vars == <<ic_event, ic_file, ic_read, ic_step>>

vars == <<lay_events, lay_done, lay_layout,
          mv_event, mv_prev, mv_op, mv_arg, mv_calls, mv_rep,
          hs_events, hs_history, hs_clock, hs_pre, hs_phase, hs_flushed,
          hs_stale,
          ui_events, ui_history, ui_ie, ui_btn, ui_drag, ui_origin,
          ui_moved, ui_late, ui_flags, ui_focus, ui_new_id, ui_init_time,
          ui_next_id, ui_tick, ui_in, ui_prev, ui_res, ui_emit,
          pp_pos, pp_shift, pp_time, pp_init, pp_event, pp_state, pp_prev,
          pp_op, pp_steps,
          ap_events, ap_history, ap_disk, ap_refresh, ap_scope, ap_ie,
          ap_log, ap_ok, ap_tick, ap_act, ap_pre,
          bk_files, bk_index, bk_range, bk_local, bk_indexed, bk_op,
          gs_events, gs_history, gs_ie, gs_state, gs_focus, gs_tick, gs_in, gs_prev, gs_hot,
          lk_todo, lk_held, lk_calls,
          ic_event, ic_file, ic_read, ic_step>>

-----------------------------------------------------------------------------
(* Small helpers *)

Min(S) == CHOOSE x \in S : \A y \in S : x <= y

MaxOf(a, b) == IF a >= b THEN a ELSE b

MinOf(a, b) == IF a <= b THEN a ELSE b

Range(f) == {f[x] : x \in DOMAIN f}

-----------------------------------------------------------------------------
(* Overlap layout engine: layout.rs *)

\* number of events handed to one compute call
MaxLayEvents == 3

\* largest timestamp of a layout input
MaxLayTime == 4

LayTimes == 0..MaxLayTime

\* Ev { id, start, end }: an input list gives the i-th event the id i
LayEv(i, se) == [id |-> i, start |-> se[1], end |-> se[2]]

LayInputs ==
  UNION {[1..n -> {se \in LayTimes \X LayTimes : se[1] <= se[2]}] : n \in 1..MaxLayEvents}

\* overlaps that takes touching intervals as overlapping
overlaps_Touching(e1, e2) == MaxOf(e1.start, e2.start) <= MinOf(e1.end, e2.end)

\* fn overlaps(e1, e2): e1.start.max(e2.start) < e1.end.min(e2.end)
overlaps(e1, e2) == MaxOf(e1.start, e2.start) < MinOf(e1.end, e2.end)

\* events.sort_by_key(|e| e.start): a stable sort (insertion into a sorted prefix)
RECURSIVE InsertByStart(_, _)
InsertByStart(sorted, e) ==
  IF sorted = << >> THEN <<e>>
  ELSE IF Head(sorted).start <= e.start
       THEN <<Head(sorted)>> \o InsertByStart(Tail(sorted), e)
       ELSE <<e>> \o sorted

RECURSIVE SortByStart(_)
SortByStart(evs) ==
  IF evs = << >> THEN << >>
  ELSE InsertByStart(SortByStart(SubSeq(evs, 1, Len(evs) - 1)), evs[Len(evs)])

\* ev_map: id -> Ev
EvMap(evs) == [i \in {evs[k].id : k \in DOMAIN evs} |->
                 (CHOOSE e \in Range(evs) : e.id = i)]

\* the column scan of compute (layout.rs:119-132): the first column of
\* 0..=group_width none of whose occupants overlaps the event
FirstFreeColMutant(group, width, event, evmap) == 0

FirstFreeCol(group, width, event, evmap) ==
  LET free == {c \in 0..width :
                 ~ \E id \in DOMAIN group :
                     group[id] = c /\ overlaps(event, evmap[id])}
  IN IF free = {} THEN -1 ELSE Min(free)

\* the iteration of the loop that leaves group_width as it is
MarkusStep_NoWiden(st, event, evmap) ==
  IF DOMAIN st.group = {}
  THEN [st EXCEPT !.group = (event.id :> 0)]
  ELSE IF ~ \E id \in DOMAIN st.group : overlaps(event, evmap[id])
  THEN [groups |-> Append(st.groups, [cols |-> st.group, width |-> st.width]),
        group  |-> (event.id :> 0),
        width  |-> 1]
  ELSE LET col == FirstFreeCol(st.group, st.width, event, evmap)
       IN IF col < 0 THEN st
          ELSE [st EXCEPT !.group = (event.id :> col) @@ st.group]

\* one iteration of the loop over the sorted events (layout.rs:100-133);
\* st = [groups, group, width]
MarkusStep(st, event, evmap) ==
  IF DOMAIN st.group = {}
  THEN [st EXCEPT !.group = (event.id :> 0)]
  ELSE IF ~ \E id \in DOMAIN st.group : overlaps(event, evmap[id])
  THEN [groups |-> Append(st.groups, [cols |-> st.group, width |-> st.width]),
        group  |-> (event.id :> 0),
        width  |-> 1]
  ELSE LET col == FirstFreeCol(st.group, st.width, event, evmap)
       IN IF col < 0 THEN st
          ELSE [st EXCEPT !.group = (event.id :> col) @@ st.group,
                          !.width = MaxOf(st.width, col + 1)]

RECURSIVE MarkusLoop(_, _, _)
MarkusLoop(st, sorted, evmap) ==
  IF sorted = << >> THEN st
  ELSE MarkusLoop(MarkusStep(st, Head(sorted), evmap), Tail(sorted), evmap)

\* MarkusAlgorithm::compute: the list of (group, width) it ends with
MarkusGroups(evs) ==
  LET sorted == SortByStart(evs)
      st == MarkusLoop([groups |-> << >>, group |-> << >>, width |-> 1],
                       sorted, EvMap(evs))
  IN IF DOMAIN st.group # {}
     THEN Append(st.groups, [cols |-> st.group, width |-> st.width])
     ELSE st.groups

\* the emitted Layout: id -> column and width of its group (the span is
\* [col/width, (col+1)/width]); the group index is kept for the claims
MarkusCompute(evs) ==
  LET gs == MarkusGroups(evs)
      ids == UNION {DOMAIN gs[g].cols : g \in DOMAIN gs}
  IN [i \in ids |->
        LET g == CHOOSE g \in DOMAIN gs : i \in DOMAIN gs[g].cols
        IN [group |-> g, col |-> gs[g].cols[i], width |-> gs[g].width]]

LayIdle ==
  /\ lay_events = << >>
  /\ lay_done = FALSE
  /\ lay_layout = << >>

LayStart ==
  /\ lay_events \in {[i \in DOMAIN inp |-> LayEv(i, inp[i])] : inp \in LayInputs}
  /\ lay_done = FALSE
  /\ lay_layout = << >>

\* a call of MarkusAlgorithm::compute(events)
LayCompute ==
  /\ ~ lay_done
  /\ lay_done' = TRUE
  /\ lay_layout' = MarkusCompute(lay_events)
  /\ UNCHANGED lay_events
  /\ UNCHANGED <<mv_vars, hs_vars, ui_vars, pp_vars, ap_vars, bk_vars, gs_vars, lk_vars, ic_vars>>

LayNext == LayCompute

-----------------------------------------------------------------------------
(* Event and its mutation rules: event.rs, util.rs, schedule_ui.rs *)

\* const SECS_PER_DAY: u64 = 24 * 3600
SECS_PER_DAY == 86400

\* min_event_duration, builder default Duration::minutes(15), in seconds
min_event_duration == 900

\* DateTime::date(): the day a timestamp falls on
DateOf(t) == t \div SECS_PER_DAY

\* Date::and_hms(0, 0, 0)
MidnightOf(d) == d * SECS_PER_DAY

\* one_day(): Duration::days(1), in days
one_day == 1

\* util::on_the_same_day(t1, t2): same date, or the later one is exactly
\* midnight of the day after the earlier one
on_the_same_day(t1, t2) ==
  IF DateOf(t1) = DateOf(t2) THEN TRUE
  ELSE LET lo == MinOf(t1, t2)
           hi == MaxOf(t1, t2)
       IN MidnightOf(DateOf(lo) + one_day) = hi

\* Event: the fields the engine reads and writes
Event(id, title, start, end) ==
  [id |-> id, title |-> title, start |-> start, end |-> end,
   modified_at |-> 0, changed |-> FALSE, deleted |-> FALSE]

\* Event::mark_changed: modified_at = now(), changed = true
mark_changed(e, now) == [e EXCEPT !.modified_at = now, !.changed = TRUE]

\* Event::mark_deleted: modified_at = now(), deleted = true
mark_deleted(e, now) == [e EXCEPT !.modified_at = now, !.deleted = TRUE]

\* Event::reset_dirty_flags
reset_dirty_flags(e) == [e EXCEPT !.deleted = FALSE, !.changed = FALSE]

\* move_event_start without the minimum-duration guard
move_event_start_NoMin(event, new_start, now) ==
  IF ~ on_the_same_day(new_start, event.end) THEN event
  ELSE IF event.start # new_start
       THEN [mark_changed(event, now) EXCEPT !.start = new_start]
       ELSE event

\* move_event_start that marks every accepted call as a change
move_event_start_AlwaysMark(event, new_start, now) ==
  IF event.end < new_start + min_event_duration THEN event
  ELSE IF ~ on_the_same_day(new_start, event.end) THEN event
  ELSE [mark_changed(event, now) EXCEPT !.start = new_start]

\* ScheduleUi::move_event_start(event, new_start)
move_event_start(event, new_start, now) ==
  IF event.end < new_start + min_event_duration THEN event
  ELSE IF ~ on_the_same_day(new_start, event.end) THEN event
  ELSE IF event.start # new_start
       THEN [mark_changed(event, now) EXCEPT !.start = new_start]
       ELSE event

\* move_event_end that only refuses to invert start and end
move_event_end_NoMin(event, new_end, now) ==
  IF new_end < event.start THEN event
  ELSE IF ~ on_the_same_day(event.start, new_end) THEN event
  ELSE IF event.end # new_end
       THEN [mark_changed(event, now) EXCEPT !.end = new_end]
       ELSE event

\* ScheduleUi::move_event_end(event, new_end)
move_event_end(event, new_end, now) ==
  IF new_end < event.start + min_event_duration THEN event
  ELSE IF ~ on_the_same_day(event.start, new_end) THEN event
  ELSE IF event.end # new_end
       THEN [mark_changed(event, now) EXCEPT !.end = new_end]
       ELSE event

\* move_event without the day-boundary guard
move_event_NoDayGuard(event, new_start, now) ==
  LET duration == event.end - event.start
      new_end == new_start + duration
  IN IF event.start # new_start \/ event.end # new_end
     THEN [mark_changed(event, now) EXCEPT !.start = new_start,
                                           !.end = new_end]
     ELSE event

\* move_event that moves the start and leaves the end
move_event_KeepEnd(event, new_start, now) ==
  LET duration == event.end - event.start
      new_end == new_start + duration
  IN IF ~ on_the_same_day(new_start, new_end) THEN event
     ELSE IF event.start # new_start \/ event.end # new_end
          THEN [mark_changed(event, now) EXCEPT !.start = new_start]
          ELSE event

\* ScheduleUi::move_event(event, new_start)
move_event(event, new_start, now) ==
  LET duration == event.end - event.start
      new_end == new_start + duration
  IN IF ~ on_the_same_day(new_start, new_end) THEN event
     ELSE IF event.start # new_start \/ event.end # new_end
          THEN [mark_changed(event, now) EXCEPT !.start = new_start,
                                                !.end = new_end]
          ELSE event

\* number of calls of a mutation rule in one behaviour
MaxMoveCalls == 2

\* the timestamps the rules are tried on: around the start and the end of
\* day 0 and of day 1, a minute short of a quarter hour, and midnight of day 2
MoveTimes == {0, 840, 900, 1800, 86100,
              86400, 87300, 172500,
              172800}

\* the events the rules are tried on: every single-day event over MoveTimes
\* with start <= end, clean or already marked changed
MoveEvents ==
  {[Event(1, "a", s, e) EXCEPT !.changed = c] :
     s \in MoveTimes, e \in MoveTimes, c \in BOOLEAN}

MvIdle ==
  /\ mv_event = Event(1, "a", 0, 0)
  /\ mv_prev = mv_event
  /\ mv_op = "none"
  /\ mv_arg = 0
  /\ mv_calls = 0
  /\ mv_rep = FALSE

MvStart ==
  /\ mv_event \in {ev \in MoveEvents :
                     ev.start <= ev.end /\ on_the_same_day(ev.start, ev.end)}
  /\ mv_prev = mv_event
  /\ mv_op = "none"
  /\ mv_arg = 0
  /\ mv_calls = 0
  /\ mv_rep = FALSE

MvCall(op, t, result) ==
  /\ mv_calls < MaxMoveCalls
  /\ mv_calls' = mv_calls + 1
  /\ mv_prev' = mv_event
  /\ mv_op' = op
  /\ mv_arg' = t
  /\ mv_rep' = (mv_op = op /\ mv_arg = t)
  /\ mv_event' = result
  /\ UNCHANGED <<lay_vars, hs_vars, ui_vars, pp_vars, ap_vars, bk_vars, gs_vars, lk_vars, ic_vars>>

\* a call move_event_start(event, t) at time now = mv_calls + 1
MvMoveStart ==
  \E t \in MoveTimes :
    MvCall("move_event_start", t, move_event_start(mv_event, t, mv_calls + 1))

\* a call move_event_end(event, t)
MvMoveEnd ==
  \E t \in MoveTimes :
    MvCall("move_event_end", t, move_event_end(mv_event, t, mv_calls + 1))

\* a call move_event(event, t)
MvMove ==
  \E t \in MoveTimes :
    MvCall("move_event", t, move_event(mv_event, t, mv_calls + 1))

MvNext == MvMoveStart \/ MvMoveEnd \/ MvMove

-----------------------------------------------------------------------------
(* Edit history and flush: interaction.rs, schedule_ui.rs, app.rs *)

\* Option::None for an Event and for an EventId
NoEvent == Event(0, "", 0, 0)

NoId == 0

\* events.iter().position(|e| e.id == id): the first index, 0 when there is none
FindFirst(events, id) ==
  IF \E i \in DOMAIN events : events[i].id = id
  THEN Min({i \in DOMAIN events : events[i].id = id})
  ELSE 0

\* enum Change { Added { new }, Removed { old }, Modified { old, new } }
Added(new) == [kind |-> "Added", old |-> NoEvent, new |-> new]

Removed(old) == [kind |-> "Removed", old |-> old, new |-> NoEvent]

Modified(old, new) == [kind |-> "Modified", old |-> old, new |-> new]

\* Option::None for a Change
NoChange == [kind |-> "None", old |-> NoEvent, new |-> NoEvent]

\* Change::reverse
Change_reverse(c) ==
  IF c.kind = "Added" THEN Removed(c.new)
  ELSE IF c.kind = "Removed" THEN Added(c.old)
  ELSE Modified(c.new, c.old)

\* Change::new_removed(events, event_id)
Change_new_removed(events, event_id) ==
  LET i == FindFirst(events, event_id)
  IN IF i = 0 THEN NoChange ELSE Removed(events[i])

\* Change::new_changed(events, changed_event)
Change_new_changed(events, changed_event) ==
  LET i == FindFirst(events, changed_event.id)
  IN IF i # 0 THEN Modified(events[i], changed_event)
     ELSE Added(changed_event)

\* Change::apply(&self, events)
Change_apply(c, events, now) ==
  IF c.kind = "Added" THEN Append(events, mark_changed(c.new, now))
  ELSE IF c.kind = "Removed"
  THEN LET i == FindFirst(events, c.old.id)
       IN IF i = 0 THEN events
          ELSE [events EXCEPT ![i] = mark_deleted(@, now)]
  ELSE LET i == FindFirst(events, c.old.id)
       IN IF i = 0 THEN events
          ELSE [events EXCEPT ![i] = mark_changed(c.new, now)]

\* ScheduleUi::apply_interacting_events: commit the committed event (NoEvent
\* when there is none), then the deleted event (NoId when there is none);
\* the result is the store and the history
apply_interacting_events(events, history, committed, deleted_id, now) ==
  LET c1 == Change_new_changed(events, committed)
      ev1 == IF committed = NoEvent THEN events
             ELSE Change_apply(c1, events, now)
      hi1 == IF committed = NoEvent THEN history ELSE Append(history, c1)
      c2 == Change_new_removed(ev1, deleted_id)
      del == deleted_id # NoId /\ c2 # NoChange
  IN [events  |-> IF del THEN Change_apply(c2, ev1, now) ELSE ev1,
      history |-> IF del THEN Append(hi1, c2) ELSE hi1]

\* handle_undo that resets the dirty flags when the History is empty
handle_undo_ResetFlags(events, history, now) ==
  IF history = << >>
  THEN [events |-> [i \in DOMAIN events |-> reset_dirty_flags(events[i])],
        history |-> history]
  ELSE [events  |-> Change_apply(Change_reverse(history[Len(history)]),
                                 events, now),
        history |-> SubSeq(history, 1, Len(history) - 1)]

\* handle_undo that takes the oldest Change of the History
handle_undo_Fifo(events, history, now) ==
  IF history = << >> THEN [events |-> events, history |-> history]
  ELSE [events  |-> Change_apply(Change_reverse(history[1]), events, now),
        history |-> SubSeq(history, 2, Len(history))]

\* handle_undo that reads the last Change and leaves it on the History
handle_undo_NoPop(events, history, now) ==
  IF history = << >> THEN [events |-> events, history |-> history]
  ELSE [events  |-> Change_apply(Change_reverse(history[Len(history)]),
                                 events, now),
        history |-> history]

\* ScheduleUi::handle_undo with Ctrl+Z pressed: History::pop, reverse, apply
handle_undo(events, history, now) ==
  IF history = << >> THEN [events |-> events, history |-> history]
  ELSE [events  |-> Change_apply(Change_reverse(history[Len(history)]),
                                 events, now),
        history |-> SubSeq(history, 1, Len(history) - 1)]

\* remove_empty_events that marks nothing
remove_empty_events_None(events, now) == events

\* remove_empty_events: every event with an empty title is marked deleted
remove_empty_events(events, now) ==
  [i \in DOMAIN events |->
     IF events[i].title = "" THEN mark_deleted(events[i], now) ELSE events[i]]

\* events.retain(|e| !e.deleted)
RECURSIVE RetainLive(_)
RetainLive(events) ==
  IF events = << >> THEN << >>
  ELSE IF Head(events).deleted THEN RetainLive(Tail(events))
       ELSE <<Head(events)>> \o RetainLive(Tail(events))

\* apply_event_changes that resets the dirty flags and keeps every event
apply_event_changes_KeepDeleted(events) ==
  [i \in DOMAIN events |-> reset_dirty_flags(events[i])]

\* App::apply_event_changes when every backend call returns Ok: the deleted
\* events are dropped and the dirty flags of the others are reset
apply_event_changes(events) ==
  LET kept == RetainLive(events)
  IN [i \in DOMAIN kept |-> reset_dirty_flags(kept[i])]

\* number of history operations in one behaviour
MaxHistOps == 4

\* number of entries of the Event Store
MaxHistEvents == 3

\* the titles a title edit can leave
HistTitles == {"b", ""}

\* new_event_id(): an id no event of the store or of the history has
HistFreshId ==
  LET used == {hs_events[i].id : i \in DOMAIN hs_events}
                \cup {hs_history[i].old.id : i \in DOMAIN hs_history}
                \cup {hs_history[i].new.id : i \in DOMAIN hs_history}
  IN CHOOSE n \in 1..(Cardinality(used) + 1) : n \notin used

\* what matters of a live event: id, title, start, end
Essence(e) == [id |-> e.id, title |-> e.title, start |-> e.start, end |-> e.end]

\* the live events of a store, each with the number of its live copies
LiveBag(events) ==
  LET live == {i \in DOMAIN events : ~ events[i].deleted}
  IN [x \in {Essence(events[i]) : i \in live} |->
        Cardinality({i \in live : Essence(events[i]) = x})]

\* the stores a behaviour starts from: loaded, flushed, with distinct ids
HistStores ==
  { << >>,
    <<Event(1, "a", 900, 1800)>>,
    <<Event(1, "a", 900, 1800), Event(2, "a", 1800, 3600)>> }

HsIdle ==
  /\ hs_events = << >>
  /\ hs_history = << >>
  /\ hs_clock = 0
  /\ hs_pre = << >>
  /\ hs_phase = "idle"
  /\ hs_flushed = FALSE
  /\ hs_stale = FALSE

HsStart ==
  /\ hs_events \in HistStores
  /\ hs_history = << >>
  /\ hs_clock = 0
  /\ hs_pre = << >>
  /\ hs_phase = "idle"
  /\ hs_flushed = FALSE
  /\ hs_stale = FALSE

\* the event Change::new_changed or Change::new_removed finds for an id, the
\* first of the store with that id, is one that is marked deleted
HsFoundDeleted(events, id) ==
  LET i == FindFirst(events, id)
  IN i # 0 /\ events[i].deleted

\* the end of a frame in which an interaction was committed or a delete was
\* requested: apply_interacting_events, then remove_empty_events
HsCommitted(committed, deleted_id) ==
  LET now == hs_clock + 1
      r == apply_interacting_events(hs_events, hs_history, committed,
                                    deleted_id, now)
  IN /\ hs_clock < MaxHistOps
     /\ hs_clock' = now
     /\ hs_events' = remove_empty_events(r.events, now)
     /\ hs_history' = r.history
     /\ hs_pre' = LiveBag(hs_events)
     /\ hs_phase' = "committed"
     /\ hs_flushed' = FALSE
     /\ hs_stale' = (hs_stale \/ HsFoundDeleted(hs_events, committed.id)
                              \/ HsFoundDeleted(hs_events, deleted_id))
     /\ UNCHANGED <<lay_vars, mv_vars, ui_vars, pp_vars, ap_vars, bk_vars, gs_vars, lk_vars, ic_vars>>

\* an interaction with a live event of the store is committed with a new title
HistCommitTitle ==
  \E i \in DOMAIN hs_events, title \in HistTitles :
    /\ ~ hs_events[i].deleted
    /\ HsCommitted([hs_events[i] EXCEPT !.title = title], NoId)

\* a drag of a live event of the store is committed
HistCommitMove ==
  \E i \in DOMAIN hs_events :
    /\ ~ hs_events[i].deleted
    /\ HsCommitted(move_event(hs_events[i], hs_events[i].start + 900,
                              hs_clock + 1), NoId)

\* a new event (drag-created or cloned) is committed
HistCommitNew ==
  \E title \in {"a", ""} :
    /\ Len(hs_events) < MaxHistEvents
    /\ HsCommitted(mark_changed(Event(HistFreshId, title, 0, 900),
                                hs_clock + 1), NoId)

\* a delete of a live event of the store is requested (DeletedEvent)
HistDelete ==
  \E i \in DOMAIN hs_events :
    /\ ~ hs_events[i].deleted
    /\ HsCommitted(NoEvent, hs_events[i].id)

\* Ctrl+Z: handle_undo
HistUndo ==
  LET now == hs_clock + 1
      r == handle_undo(hs_events, hs_history, now)
  IN /\ hs_clock < MaxHistOps
     /\ Len(r.events) <= MaxHistEvents
     /\ hs_clock' = now
     /\ hs_events' = r.events
     /\ hs_history' = r.history
     /\ hs_phase' = IF hs_phase = "committed" /\ hs_history # << >>
                    THEN "undone" ELSE "idle"
     /\ hs_stale' =
          (\/ hs_stale
           \/ /\ hs_history # << >>
              /\ HsFoundDeleted(
                   hs_events,
                   Change_reverse(hs_history[Len(hs_history)]).old.id))
     /\ UNCHANGED <<hs_pre, hs_flushed>>
     /\ UNCHANGED <<lay_vars, mv_vars, ui_vars, pp_vars, ap_vars, bk_vars, gs_vars, lk_vars, ic_vars>>

\* the flush at the end of a tick: App::apply_event_changes
HistFlush ==
  /\ hs_clock < MaxHistOps
  /\ hs_clock' = hs_clock + 1
  /\ hs_events' = apply_event_changes(hs_events)
  /\ hs_flushed' = TRUE
  /\ UNCHANGED <<hs_history, hs_pre, hs_phase, hs_stale>>
  /\ UNCHANGED <<lay_vars, mv_vars, ui_vars, pp_vars, ap_vars, bk_vars, gs_vars, lk_vars, ic_vars>>

HistNext ==
  \/ HistCommitTitle
  \/ HistCommitMove
  \/ HistCommitNew
  \/ HistDelete
  \/ HistUndo
  \/ HistFlush

-----------------------------------------------------------------------------
(* Frames of the schedule widget: schedule_ui.rs, interaction.rs, app.rs *)

\* One step is one frame.  The order of the frame is that of
\* ScheduleUi::show (schedule_ui.rs); the blocks, the classifier and the
\* commit are those of interaction.rs, with apply_interacting_events where
\* show takes the committed event.  What the toolkit does is modelled by its
\* effect on the widgets: the press is taken by the first widget under the
\* pointer that is put in the frame, and from then on something "is being
\* dragged" up to and including the frame of the release; a widget is
\* "dragged" from the frame of its press.  The input is the pointer (two
\* buttons, Ctrl), the Escape key, typed text and a loss of focus; the
\* keyboard shortcuts, undo and the context menu get no input here.  Every
\* event is on a visible day.

\* A widget is named by the id of the event it shows: the button of an event
\* and the title editor of the same event are put at the same place of the
\* frame.  NoWidget is "no widget" (nothing pressed, nothing under the pointer).
NoWidget == 0

\* the widget ui.interact(ui.max_rect(), "empty_area", Sense::drag())
EmptyArea == -1

\* Option::None for the pointer time (the pointer is outside of the grid)
NoTime == -1

\* no text typed into the title editor in this frame
NoTyping == "<none>"

\* Option::None for the InteractingEvent
NoIE == [event |-> NoEvent, state |-> "None"]

\* FocusedEventState of an InteractingEvent that is being dragged
DragStates == {"Dragging", "DraggingEventStart", "DraggingEventEnd"}

\* where event_resizer_regions puts the press origin inside an event
Regions == {"upper", "lower", "body"}

\* egui::PointerButton
Buttons == {"primary", "secondary"}

\* number of frames in one behaviour
MaxTicks == 6

\* number of events new_event and clone_to_new_event create in one behaviour
MaxNewEvents == 2

\* the times the pointer points at, multiples of snapping_duration
PtrTimes == {900, 2700}

\* the texts typed into the title editor
TypedTitles == {"x"}

\* the store the frames start from: loaded, regular, flushed
UiStore == <<Event(1, "a", 900, 1800), Event(2, "b", 1800, 3600)>>

\* the input of a frame in which nothing happens
NoInput ==
  [ev |-> "none", target |-> NoWidget, region |-> "body", button |-> "primary",
   far |-> FALSE, late |-> FALSE, click |-> FALSE, ctrl |-> FALSE,
   time |-> NoTime, esc |-> FALSE, lost |-> FALSE, typed |-> NoTyping]

\* what a frame detected: the widget detect_interaction gave a result for,
\* the result, and the state interact_event_region made of it
NoRes == [widget |-> NoWidget, res |-> "None", state |-> "None"]

UiIdle ==
  /\ ui_events = << >>
  /\ ui_history = << >>
  /\ ui_ie = NoIE
  /\ ui_btn = "up"
  /\ ui_drag = NoWidget
  /\ ui_origin = "body"
  /\ ui_moved = FALSE
  /\ ui_late = FALSE
  /\ ui_flags = {}
  /\ ui_focus = FALSE
  /\ ui_new_id = NoId
  /\ ui_init_time = NoTime
  /\ ui_next_id = 0
  /\ ui_tick = 0
  /\ ui_in = NoInput
  /\ ui_prev = [events |-> << >>, history |-> << >>, ie |-> NoIE]
  /\ ui_res = NoRes
  /\ ui_emit = << >>

UiStart ==
  /\ ui_events = UiStore
  /\ ui_history = << >>
  /\ ui_ie = NoIE
  /\ ui_btn = "up"
  /\ ui_drag = NoWidget
  /\ ui_origin = "body"
  /\ ui_moved = FALSE
  /\ ui_late = FALSE
  /\ ui_flags = {}
  /\ ui_focus = FALSE
  /\ ui_new_id = NoId
  /\ ui_init_time = NoTime
  /\ ui_next_id = Len(UiStore) + 1
  /\ ui_tick = 0
  /\ ui_in = NoInput
  /\ ui_prev = [events |-> UiStore, history |-> << >>, ie |-> NoIE]
  /\ ui_res = NoRes
  /\ ui_emit = << >>

\* the widgets of a frame: the live events of the store, the interacting
\* event, the empty area
UiWidgets ==
  {ui_events[i].id : i \in {j \in DOMAIN ui_events : ~ ui_events[j].deleted}}
    \cup (IF ui_ie = NoIE THEN {} ELSE {ui_ie.event.id})
    \cup {EmptyArea}

\* the times the pointer of a frame may point at: they matter to a frame
\* that moves an InteractingEvent or makes a new event
InputTimes(used) == IF used THEN PtrTimes \cup {NoTime} ELSE {NoTime}

\* a press on widget w
PressInputs(w) ==
  {[NoInput EXCEPT !.ev = "press", !.target = w, !.region = r, !.button = b,
                   !.far = f, !.ctrl = c, !.time = tm] :
     r \in (IF w = EmptyArea THEN {"body"} ELSE Regions),
     b \in Buttons,
     f \in BOOLEAN,
     c \in (IF w = EmptyArea THEN {FALSE} ELSE BOOLEAN),
     tm \in InputTimes(w = EmptyArea)}

\* the button stays down: the pointer is far from the press origin, or the
\* press has become long, or neither
HoldInputs ==
  {[NoInput EXCEPT !.button = ui_btn, !.far = fl[1], !.late = fl[2],
                   !.ctrl = c, !.time = tm] :
     fl \in (IF ui_moved \/ ui_late THEN {<<FALSE, ui_late>>}
             ELSE {<<FALSE, FALSE>>, <<TRUE, FALSE>>, <<FALSE, TRUE>>}),
     c \in (IF ui_moved \/ ui_late \/ ui_drag = EmptyArea THEN {FALSE}
            ELSE BOOLEAN),
     tm \in InputTimes(ui_ie.state \in DragStates \/ ui_drag = EmptyArea)}

\* the button goes up
ReleaseInputs ==
  {[NoInput EXCEPT !.ev = "release", !.button = ui_btn,
                   !.target = (IF k THEN ui_drag ELSE NoWidget),
                   !.click = k, !.late = ui_late, !.time = tm] :
     k \in (IF ui_moved \/ ui_late THEN {FALSE} ELSE BOOLEAN),
     tm \in InputTimes(ui_ie.state \in DragStates)}

\* the pointer part of the input of a frame.  A press comes with the button
\* up and at least one frame after the release (the frame after a release is
\* the repaint the release asks for); the pointer may move more than
\* MAX_CLICK_DIST in the frame of the press; a release is a click only when
\* the pointer neither moved too much nor was held too long.  Fields that
\* cannot matter to the frame keep the value they have in NoInput.
PointerInputs ==
  IF ui_btn = "up"
  THEN {[NoInput EXCEPT !.target = w] : w \in {NoWidget} \cup ui_flags}
       \cup (IF ui_drag # NoWidget THEN {}
             ELSE UNION {PressInputs(w) : w \in UiWidgets})
  ELSE HoldInputs \cup ReleaseInputs

\* the keyboard part: Escape, typed text and a loss of focus (Tab, Enter,
\* Escape) reach a title editor that had the focus in the frame before
KeyInputs ==
  IF ui_ie.state = "Editing" /\ ui_focus
  THEN [esc : BOOLEAN, lost : BOOLEAN, typed : TypedTitles \cup {NoTyping}]
  ELSE IF ui_ie.state = "Editing"
  THEN [esc : BOOLEAN, lost : {FALSE}, typed : {NoTyping}]
  ELSE [esc : {FALSE}, lost : {FALSE}, typed : {NoTyping}]

UiInputs ==
  {[p EXCEPT !.esc = k.esc, !.lost = k.lost, !.typed = k.typed] :
     p \in PointerInputs, k \in KeyInputs}

\* The Response of widget w, put while the ui memory is m, in a frame with
\* context cx: the first widget under the pointer takes the press (drag id),
\* the empty area lies under every other widget;
\* dragged holds from the frame of the press while the button is down;
\* drag_released and clicked come in the frame of the release, clicked for
\* a click of the primary button.
Resp(m, cx, w) ==
  LET pre == m.drag = w
      take == /\ cx.ev = "press"
              /\ m.drag = NoWidget
              /\ (cx.target = w \/ w = EmptyArea)
  IN [dragged       |-> IF cx.ev = "release" THEN FALSE ELSE pre \/ take,
      drag_released |-> cx.ev = "release" /\ pre,
      clicked       |-> /\ cx.ev = "release" /\ pre /\ cx.click
                        /\ cx.button = "primary",
      pos           |-> pre \/ take \/ cx.target = w,
      drag          |-> IF take THEN w ELSE m.drag]

\* detect_interaction that does not latch the start of a drag
detect_interaction_NoLatch(flags, cx, r, w) ==
  LET f0 == IF ~ cx.any_down THEN flags \ {w} ELSE flags
  IN IF w \notin f0 /\ r.clicked
     THEN [flags |-> f0 \cup {w}, res |-> "Clicked"]
     ELSE IF r.drag_released
     THEN [flags |-> f0, res |-> "DragReleased"]
     ELSE IF w \notin f0 /\ r.dragged
     THEN IF cx.far \/ cx.late
          THEN [flags |-> f0, res |-> "DragStarted"]
          ELSE [flags |-> f0, res |-> "None"]
     ELSE IF w \in f0 /\ r.dragged
     THEN [flags |-> f0, res |-> "Dragged"]
     ELSE [flags |-> f0, res |-> "None"]

\* detect_interaction(response): the result and the DetectionFinishFlags
detect_interaction(flags, cx, r, w) ==
  LET f0 == IF ~ cx.any_down THEN flags \ {w} ELSE flags
  IN IF w \notin f0 /\ r.clicked
     THEN [flags |-> f0 \cup {w}, res |-> "Clicked"]
     ELSE IF r.drag_released
     THEN [flags |-> f0, res |-> "DragReleased"]
     ELSE IF w \notin f0 /\ r.dragged
     THEN IF cx.far \/ cx.late
          THEN [flags |-> f0 \cup {w}, res |-> "DragStarted"]
          ELSE [flags |-> f0, res |-> "None"]
     ELSE IF w \in f0 /\ r.dragged
     THEN [flags |-> f0, res |-> "Dragged"]
     ELSE [flags |-> f0, res |-> "None"]

\* interact_event_region with the upper and the lower resizer swapped
interact_event_region_Swapped(flags, cx, r, w) ==
  IF ~ r.pos THEN [flags |-> flags, res |-> "None", state |-> "None"]
  ELSE LET d == detect_interaction(flags, cx, r, w)
       IN [flags |-> d.flags, res |-> d.res, state |->
             IF d.res = "Clicked" /\ cx.button = "primary" THEN "Editing"
             ELSE IF d.res = "DragStarted" /\ cx.button = "primary"
             THEN IF cx.origin = "lower" THEN "DraggingEventStart"
                  ELSE IF cx.origin = "upper" THEN "DraggingEventEnd"
                  ELSE IF cx.ctrl THEN "EventCloning"
                  ELSE "Dragging"
             ELSE "None"]

\* interact_event_region(ui, resp): the FocusedEventState a pointer gesture
\* on the button of an event starts, "None" when it starts none
interact_event_region(flags, cx, r, w) ==
  IF ~ r.pos THEN [flags |-> flags, res |-> "None", state |-> "None"]
  ELSE LET d == detect_interaction(flags, cx, r, w)
       IN [flags |-> d.flags, res |-> d.res, state |->
             IF d.res = "Clicked" /\ cx.button = "primary" THEN "Editing"
             ELSE IF d.res = "DragStarted" /\ cx.button = "primary"
             THEN IF cx.origin = "upper" THEN "DraggingEventStart"
                  ELSE IF cx.origin = "lower" THEN "DraggingEventEnd"
                  ELSE IF cx.ctrl THEN "EventCloning"
                  ELSE "Dragging"
             ELSE "None"]

\* new_event(): an untitled event with a new id, marked changed
new_event(id, now) ==
  mark_changed(Event(id, "", 0, min_event_duration), now)

\* clone_to_new_event that keeps the id of the event
clone_to_new_event_SameId(event, id, now) ==
  mark_changed(event, now)

\* clone_to_new_event(event)
clone_to_new_event(event, id, now) ==
  mark_changed([event EXCEPT !.id = id], now)

\* day_progress(init_time) < 0.5
DayProgressLow(t) == (t % SECS_PER_DAY) * 2 < SECS_PER_DAY

\* assign_new_event_dates that takes equal times as in order
assign_new_event_dates_Strict(init_time, new_time, event) ==
  IF new_time = NoTime THEN [event |-> event, state |-> "None"]
  ELSE LET reordered == init_time > new_time
           s0 == MinOf(init_time, new_time)
           e0 == MaxOf(init_time, new_time)
           same == on_the_same_day(s0, e0)
           start == IF same THEN s0
                    ELSE IF DayProgressLow(init_time) THEN init_time
                    ELSE init_time - min_event_duration
           end == IF same THEN e0
                  ELSE IF DayProgressLow(init_time)
                  THEN init_time + min_event_duration
                  ELSE init_time
       IN [event |-> [event EXCEPT !.start = start, !.end = end],
           state |-> IF reordered THEN "DraggingEventStart"
                     ELSE "DraggingEventEnd"]

\* assign_new_event_dates(ui, init_time, event) with the pointer at new_time:
\* the event and the state, "None" for Option::None
assign_new_event_dates(init_time, new_time, event) ==
  IF new_time = NoTime THEN [event |-> event, state |-> "None"]
  ELSE LET reordered == ~ (init_time < new_time)
           s0 == MinOf(init_time, new_time)
           e0 == MaxOf(init_time, new_time)
           same == on_the_same_day(s0, e0)
           start == IF same THEN s0
                    ELSE IF DayProgressLow(init_time) THEN init_time
                    ELSE init_time - min_event_duration
           end == IF same THEN e0
                  ELSE IF DayProgressLow(init_time)
                  THEN init_time + min_event_duration
                  ELSE init_time
       IN [event |-> [event EXCEPT !.start = start, !.end = end],
           state |-> IF reordered THEN "DraggingEventStart"
                     ELSE "DraggingEventEnd"]

\* put_non_interacting_event_block that stores the state it was given
put_non_interacting_event_block_KeepCloning(m, cx, event) ==
  LET w == event.id
      r == Resp(m, cx, w)
      i == interact_event_region(m.flags, cx, r, w)
      m1 == [m EXCEPT !.drag = r.drag, !.flags = i.flags,
                      !.res = IF i.res = "None" THEN @
                              ELSE [widget |-> w, res |-> i.res,
                                    state |-> i.state],
                      !.emit = IF i.res = "None" THEN @
                               ELSE Append(@, <<w, i.res>>)]
  IN IF i.state = "None" THEN m1
     ELSE IF i.state = "EventCloning"
     THEN [m1 EXCEPT !.ie = [event |-> clone_to_new_event(event, cx.fresh,
                                                          cx.now),
                             state |-> i.state],
                     !.issued = TRUE]
     ELSE [m1 EXCEPT !.ie = [event |-> event, state |-> i.state]]

\* put_non_interacting_event_block(ui, layout, event)
put_non_interacting_event_block(m, cx, event) ==
  LET w == event.id
      r == Resp(m, cx, w)
      i == interact_event_region(m.flags, cx, r, w)
      m1 == [m EXCEPT !.drag = r.drag, !.flags = i.flags,
                      !.res = IF i.res = "None" THEN @
                              ELSE [widget |-> w, res |-> i.res,
                                    state |-> i.state],
                      !.emit = IF i.res = "None" THEN @
                               ELSE Append(@, <<w, i.res>>)]
  IN IF i.state = "None" THEN m1
     ELSE IF i.state = "EventCloning"
     THEN [m1 EXCEPT !.ie = [event |-> clone_to_new_event(event, cx.fresh,
                                                          cx.now),
                             state |-> "Dragging"],
                     !.issued = TRUE]
     ELSE [m1 EXCEPT !.ie = [event |-> event, state |-> i.state]]

\* place_event_editor that looks at the loss of focus before the Escape key
place_event_editor_FocusFirst(m, cx, event) ==
  LET w == event.id
      r == Resp(m, cx, w)
      edited == IF cx.typed = NoTyping THEN event
                ELSE [event EXCEPT !.title = cx.typed]
      anything_else_dragging ==
        r.drag # NoWidget /\ ~ r.dragged /\ ~ r.drag_released
      clicked_elsewhere == cx.ev = "release" /\ cx.click /\ m.drag # w
  IN [drag  |-> r.drag,
      event |-> edited,
      out   |-> IF cx.lost \/ clicked_elsewhere \/ anything_else_dragging
                THEN "commit"
                ELSE IF cx.esc THEN "discard"
                ELSE "none"]

\* place_event_editor(ui, rect, event): "discard" for Some(false), "commit"
\* for Some(true), "none" for None, with the event as the editor leaves it
place_event_editor(m, cx, event) ==
  LET w == event.id
      r == Resp(m, cx, w)
      edited == IF cx.typed = NoTyping THEN event
                ELSE [event EXCEPT !.title = cx.typed]
      anything_else_dragging ==
        r.drag # NoWidget /\ ~ r.dragged /\ ~ r.drag_released
      clicked_elsewhere == cx.ev = "release" /\ cx.click /\ m.drag # w
  IN [drag  |-> r.drag,
      event |-> edited,
      out   |-> IF cx.esc THEN "discard"
                ELSE IF cx.lost \/ clicked_elsewhere \/ anything_else_dragging
                THEN "commit"
                ELSE "none"]

\* interact_event that never commits
interact_event_NoCommit(m, cx, ie) ==
  LET r == Resp(m, cx, ie.event.id)
  IN [drag  |-> r.drag,
      event |-> IF cx.time = NoTime THEN ie.event
                ELSE move_event(ie.event, cx.time, cx.now),
      out   |-> "none"]

\* interact_event(ui, event_rect, state, event): handle_event_resizing and
\* handle_event_dragging commit when nothing is being dragged, and move the
\* event to the pointer time otherwise
interact_event(m, cx, ie) ==
  LET r == Resp(m, cx, ie.event.id)
      moved == IF cx.time = NoTime THEN ie.event
               ELSE IF ie.state = "DraggingEventStart"
               THEN move_event_start(ie.event, cx.time, cx.now)
               ELSE IF ie.state = "DraggingEventEnd"
               THEN move_event_end(ie.event, cx.time, cx.now)
               ELSE move_event(ie.event, cx.time, cx.now)
  IN [drag  |-> r.drag,
      event |-> IF r.drag = NoWidget THEN ie.event ELSE moved,
      out   |-> IF r.drag = NoWidget THEN "commit" ELSE "none"]

\* put_interacting_event_block that commits the scratch copy in every frame
put_interacting_event_block_Through(m, cx) ==
  IF m.ie = NoIE \/ m.ie.event.id \notin cx.layout THEN m
  ELSE LET p == IF m.ie.state = "Editing"
                THEN place_event_editor(m, cx, m.ie.event)
                ELSE interact_event(m, cx, m.ie)
       IN IF p.out = "none"
          THEN [m EXCEPT !.drag = p.drag,
                         !.ie = [event |-> p.event, state |-> m.ie.state],
                         !.commit = p.event,
                         !.focus = (m.ie.state = "Editing")]
          ELSE IF p.out = "commit"
          THEN [m EXCEPT !.drag = p.drag, !.ie = NoIE, !.commit = p.event,
                         !.focus = FALSE]
          ELSE [m EXCEPT !.drag = p.drag, !.ie = NoIE, !.focus = FALSE]

\* put_interacting_event_block(ui, layout): the block of the event in the
\* InteractingEvent slot; nothing without a slot or without a rect
put_interacting_event_block(m, cx) ==
  IF m.ie = NoIE \/ m.ie.event.id \notin cx.layout THEN m
  ELSE LET p == IF m.ie.state = "Editing"
                THEN place_event_editor(m, cx, m.ie.event)
                ELSE interact_event(m, cx, m.ie)
       IN IF p.out = "none"
          THEN [m EXCEPT !.drag = p.drag,
                         !.ie = [event |-> p.event, state |-> m.ie.state],
                         !.focus = (m.ie.state = "Editing")]
          ELSE IF p.out = "commit"
          THEN [m EXCEPT !.drag = p.drag, !.ie = NoIE, !.commit = p.event,
                         !.focus = FALSE]
          ELSE [m EXCEPT !.drag = p.drag, !.ie = NoIE, !.focus = FALSE]

\* handle_new_event(ui, response) for the response of the empty area
handle_new_event(m, cx) ==
  LET r == Resp(m, cx, EmptyArea)
      d == detect_interaction(m.flags, cx, r, EmptyArea)
      m1 == [m EXCEPT !.drag = r.drag, !.flags = d.flags,
                      !.res = IF d.res = "None" THEN @
                              ELSE [widget |-> EmptyArea, res |-> d.res,
                                    state |-> "None"],
                      !.emit = IF d.res = "None" THEN @
                               ELSE Append(@, <<EmptyArea, d.res>>)]
      primary == cx.button = "primary"
      created == assign_new_event_dates(cx.time, cx.time,
                                        new_event(cx.fresh, cx.now))
      resized == assign_new_event_dates(m.init_time, cx.time, m.ie.event)
      mine == m.new_id # NoId /\ m.ie # NoIE /\ m.ie.event.id = m.new_id
  IN IF d.res = "Clicked" /\ primary THEN [m1 EXCEPT !.ie = NoIE]
     ELSE IF d.res = "DragStarted" /\ primary
     THEN IF created.state = "None" THEN m1
          ELSE [m1 EXCEPT !.ie = created, !.new_id = cx.fresh,
                          !.init_time = cx.time, !.issued = TRUE]
     ELSE IF d.res = "DragReleased"
     THEN IF mine THEN [m1 EXCEPT !.ie.state = "Editing"] ELSE m1
     ELSE IF d.res = "Dragged" /\ primary
     THEN IF mine /\ resized.state # "None" THEN [m1 EXCEPT !.ie = resized]
          ELSE m1
     ELSE m1

\* regularize_events: remove_empty_events, then every event shorter than
\* min_event_duration gets its end moved
regularize_events(events, now) ==
  LET ev == remove_empty_events(events, now)
  IN [i \in DOMAIN ev |->
        IF ev[i].end - ev[i].start < min_event_duration
        THEN move_event_end(ev[i], ev[i].start + min_event_duration, now)
        ELSE ev[i]]

\* the loop of show over the events of the store, from the i-th on
RECURSIVE ShowEvents(_, _, _, _, _)
ShowEvents(events, i, m, cx, ieid) ==
  IF i > Len(events) THEN m
  ELSE IF events[i].deleted THEN ShowEvents(events, i + 1, m, cx, ieid)
  ELSE IF events[i].id = ieid
  THEN ShowEvents(events, i + 1, put_interacting_event_block(m, cx), cx, ieid)
  ELSE ShowEvents(events, i + 1,
                  put_non_interacting_event_block(m, cx, events[i]), cx, ieid)

\* One frame: App::update without a backend reload.  ScheduleUi::show
\* regularizes the store, puts the blocks of the events in the order of the
\* store, then the block of an InteractingEvent that is not in the store,
\* then handles the empty area, applies the committed event and removes the
\* events without a title; App::apply_event_changes flushes the store.
Frame ==
  /\ ui_tick < MaxTicks
  /\ \E in \in UiInputs :
    LET now == ui_tick + 1
        ev0 == regularize_events(ui_events, now)
        ieid == IF ui_ie = NoIE THEN NoId ELSE ui_ie.event.id
        live == {ev0[i].id : i \in {j \in DOMAIN ev0 : ~ ev0[j].deleted}}
        cx == [ev |-> in.ev, target |-> in.target, button |-> in.button,
               far |-> in.far, late |-> in.late, click |-> in.click,
               ctrl |-> in.ctrl, time |-> in.time, esc |-> in.esc,
               lost |-> in.lost, typed |-> in.typed,
               any_down |-> (in.ev = "press"
                               \/ (ui_btn # "up" /\ in.ev # "release")),
               origin |-> IF in.ev = "press" THEN in.region ELSE ui_origin,
               now |-> now, fresh |-> ui_next_id,
               layout |-> live \cup (IF ieid = NoId THEN {} ELSE {ieid})]
        m0 == [ie |-> ui_ie, commit |-> NoEvent,
               drag |-> IF ui_btn = "up" THEN NoWidget ELSE ui_drag,
               flags |-> ui_flags, focus |-> ui_focus,
               new_id |-> ui_new_id, init_time |-> ui_init_time,
               issued |-> FALSE, res |-> NoRes,
               emit |-> IF in.ev = "press" THEN << >> ELSE ui_emit]
    IN \E m3 \in {handle_new_event(
                    IF ieid # NoId /\ ieid \notin live
                    THEN put_interacting_event_block(
                           ShowEvents(ev0, 1, m0, cx, ieid), cx)
                    ELSE ShowEvents(ev0, 1, m0, cx, ieid), cx)} :
       \E r \in {apply_interacting_events(ev0, ui_history, m3.commit, NoId,
                                          now)} :
       /\ m3.issued => ui_next_id < Len(UiStore) + 1 + MaxNewEvents
       /\ ui_tick' = now
       /\ ui_events' = apply_event_changes(remove_empty_events(r.events, now))
       /\ ui_history' = r.history
       /\ ui_ie' = m3.ie
       /\ ui_btn' = IF in.ev = "press" THEN in.button
                    ELSE IF in.ev = "release" THEN "up" ELSE ui_btn
       /\ ui_drag' = m3.drag
       /\ ui_origin' = cx.origin
       /\ ui_moved' = IF in.ev = "press" THEN in.far
                      ELSE cx.any_down /\ (ui_moved \/ in.far)
       /\ ui_late' = (cx.any_down /\ in.late)
       /\ ui_flags' = m3.flags
       /\ ui_focus' = (m3.focus /\ m3.ie.state = "Editing")
       /\ ui_new_id' = m3.new_id
       /\ ui_init_time' = m3.init_time
       /\ ui_next_id' = IF m3.issued THEN ui_next_id + 1 ELSE ui_next_id
       /\ ui_in' = in
       /\ ui_prev' = [events |-> ui_events, history |-> ui_history,
                      ie |-> ui_ie]
       /\ ui_res' = m3.res
       /\ ui_emit' = m3.emit
       /\ UNCHANGED <<lay_vars, mv_vars, hs_vars, pp_vars, ap_vars, bk_vars, gs_vars, lk_vars, ic_vars>>

UiNext == Frame

-----------------------------------------------------------------------------
(* Pointer positions to timestamps: schedule_ui.rs, interaction.rs *)

\* Positions are relative to the content origin, in whole pixels (negative in
\* the time marker margin and in the day header); timestamps are seconds from
\* midnight of first_day.  For whole pixels the f32 arithmetic of the snapped
\* mapping equals the exact one, and so does the one of the unsnapped mapping
\* on the rows of PtrYs.

day_count == 3

day_width == 260

segment_count == 24

segment_height == 80

snapping_duration == 900

\* content_height()
content_height == segment_height * segment_count

\* `as i64` of a quotient: the fraction is dropped, toward zero
TruncDiv(a, b) == IF a >= 0 THEN a \div b ELSE -((-a) \div b)

\* pointer_pos_to_datetime(rel_pos), NoTime for None
pointer_pos_to_datetime(pos) ==
  LET day == TruncDiv(pos.x, day_width)
  IN IF ~ (day >= 0 /\ day < day_count) THEN NoTime
     ELSE IF ~ (pos.y > 0 /\ pos.y < content_height) THEN NoTime
     ELSE MidnightOf(day) + (SECS_PER_DAY * pos.y) \div content_height

\* pointer_pos_to_datetime_snapping without the cap at the end of the day
pointer_pos_to_datetime_snapping_NoCap(pos) ==
  LET day == TruncDiv(pos.x, day_width)
      snapped_seconds ==
        ((SECS_PER_DAY * pos.y) \div (content_height * snapping_duration))
          * snapping_duration
  IN IF ~ (day >= 0 /\ day < day_count) THEN NoTime
     ELSE IF pos.y < 0 THEN NoTime
     ELSE MidnightOf(day) + snapped_seconds

\* pointer_pos_to_datetime_snapping(rel_pos), NoTime for None
pointer_pos_to_datetime_snapping(pos) ==
  LET day == TruncDiv(pos.x, day_width)
      snapped_seconds ==
        ((SECS_PER_DAY * pos.y) \div (content_height * snapping_duration))
          * snapping_duration
  IN IF ~ (day >= 0 /\ day < day_count) THEN NoTime
     ELSE IF pos.y < 0 THEN NoTime
     ELSE MidnightOf(day) + (IF snapped_seconds > SECS_PER_DAY
                             THEN SECS_PER_DAY ELSE snapped_seconds)

\* pointer_to_datetime_auto(ui, pos): no snapping while shift alone is held
pointer_to_datetime_auto(shift, pos) ==
  IF shift THEN pointer_pos_to_datetime(pos)
  ELSE pointer_pos_to_datetime_snapping(pos)

MaxPtrSteps == 2

\* pointer columns: left of the margin, in the margin, the three days, past
\* the last day
PtrXs == {-260, -1, 0, 300, 779, 780}

\* pointer rows: in the header, the top, the first slots, the second half of
\* the day, the last row, the bottom and below it
PtrYs == {-1, 0, 1, 20, 1000, 1919, 1920, 1940}

PtrPositions == [x : PtrXs, y : PtrYs]

\* the id new_event_id() gives to the created event
PtrNewId == 9

\* the stored event whose edge is dragged
PtrStored == Event(1, "a", 900, 1800)

PpIdle ==
  /\ pp_pos = [x |-> 0, y |-> 0]
  /\ pp_shift = FALSE
  /\ pp_time = NoTime
  /\ pp_init = NoTime
  /\ pp_event = NoEvent
  /\ pp_state = "None"
  /\ pp_prev = NoEvent
  /\ pp_op = "none"
  /\ pp_steps = 0

PpStart == PpIdle

\* what every step of the pointer records
PpStep(op, pos, shift) ==
  /\ pp_pos' = pos
  /\ pp_shift' = shift
  /\ pp_time' = pointer_to_datetime_auto(shift, pos)
  /\ pp_prev' = pp_event
  /\ pp_op' = op
  /\ pp_steps' = pp_steps + 1
  /\ UNCHANGED <<lay_vars, mv_vars, hs_vars, ui_vars, ap_vars, bk_vars, gs_vars, lk_vars, ic_vars>>

\* handle_new_event, the arm of DragStarted by the primary button
PpDragStarted ==
  /\ pp_steps < MaxPtrSteps
  /\ pp_state = "None"
  /\ \E pos \in PtrPositions, shift \in BOOLEAN :
       LET init_time == pointer_to_datetime_auto(shift, pos)
           created == assign_new_event_dates(init_time, init_time,
                                             new_event(PtrNewId, pp_steps + 1))
       IN /\ PpStep("DragStarted", pos, shift)
          /\ IF init_time = NoTime
             THEN UNCHANGED <<pp_init, pp_event, pp_state>>
             ELSE /\ pp_init' = init_time
                  /\ pp_event' = created.event
                  /\ pp_state' = created.state

\* handle_new_event, the arm of Dragged by the primary button
PpDragged ==
  /\ pp_steps < MaxPtrSteps
  /\ pp_state # "None" /\ pp_init # NoTime
  /\ \E pos \in PtrPositions, shift \in BOOLEAN :
       LET resized == assign_new_event_dates(
                        pp_init, pointer_to_datetime_auto(shift, pos), pp_event)
       IN /\ PpStep("Dragged", pos, shift)
          /\ UNCHANGED pp_init
          /\ IF resized.state = "None"
             THEN UNCHANGED <<pp_event, pp_state>>
             ELSE /\ pp_event' = resized.event
                  /\ pp_state' = resized.state

\* put_non_interacting_event_block, DragStarted on a resizer of a stored event
PpGrab ==
  /\ pp_steps < MaxPtrSteps
  /\ pp_state = "None"
  /\ \E st \in {"DraggingEventStart", "DraggingEventEnd"} :
       /\ pp_event' = PtrStored
       /\ pp_state' = st
       /\ pp_prev' = pp_event
       /\ pp_op' = "Grab"
       /\ pp_steps' = pp_steps + 1
       /\ UNCHANGED <<pp_pos, pp_shift, pp_time, pp_init>>
       /\ UNCHANGED <<lay_vars, mv_vars, hs_vars, ui_vars, ap_vars, bk_vars, gs_vars, lk_vars, ic_vars>>

\* interact_event and handle_event_resizing while the drag lasts
PpResized ==
  /\ pp_steps < MaxPtrSteps
  /\ pp_state # "None" /\ pp_init = NoTime
  /\ \E pos \in PtrPositions, shift \in BOOLEAN :
       LET datetime == pointer_to_datetime_auto(shift, pos)
       IN /\ PpStep("Resized", pos, shift)
          /\ UNCHANGED <<pp_init, pp_state>>
          /\ pp_event' =
               IF datetime = NoTime THEN pp_event
               ELSE IF pp_state = "DraggingEventStart"
               THEN move_event_start(pp_event, datetime, pp_steps + 1)
               ELSE move_event_end(pp_event, datetime, pp_steps + 1)

\* the button is released: the gesture is over
PpReleased ==
  /\ pp_steps < MaxPtrSteps
  /\ pp_state # "None"
  /\ pp_init' = NoTime
  /\ pp_event' = NoEvent
  /\ pp_state' = "None"
  /\ pp_prev' = pp_event
  /\ pp_op' = "Released"
  /\ pp_steps' = pp_steps + 1
  /\ UNCHANGED <<pp_pos, pp_shift, pp_time>>
  /\ UNCHANGED <<lay_vars, mv_vars, hs_vars, ui_vars, ap_vars, bk_vars, gs_vars, lk_vars, ic_vars>>

PpNext == PpDragStarted \/ PpDragged \/ PpGrab \/ PpResized \/ PpReleased

-----------------------------------------------------------------------------
(* The application tick: App::update over a backend whose calls can fail *)

\* number of ticks in one behaviour
MaxAppTicks == 4

\* number of entries of the Event Store when a new event is started
MaxAppEvents == 2

\* the titles an edit can leave
AppTitles == {"b", ""}

\* the schedule is shown: the mark show leaves in the log of a tick
ShowMark == <<"show", NoId>>

\* the files of the backend at start: nothing, one event, or one event and
\* one event without a title
AppDisks ==
  {<< >>,
   <<Event(1, "a", 900, 2700)>>,
   <<Event(1, "a", 900, 2700), Event(2, "", 3600, 5400)>>}

\* one call of a Backend method: it is logged, and it returns Err when it is
\* the st.fail-th call of the tick
BackendCall(st, name, id) ==
  [st EXCEPT !.log = Append(@, <<name, id>>),
             !.n = @ + 1,
             !.ok = (st.n + 1 # st.fail)]

\* LocalDir::delete_event: the file of the event is removed when it exists
DiskDelete(disk, id) == SelectSeq(disk, LAMBDA e : e.id # id)

\* LocalDir::update_event: the file of the event is written
DiskUpdate(disk, event) ==
  LET i == FindFirst(disk, event.id)
  IN IF i = 0 THEN Append(disk, reset_dirty_flags(event))
     ELSE [disk EXCEPT ![i] = reset_dirty_flags(event)]

\* ScheduleUi::load_events that keeps the History
ScheduleUi_load_events_KeepHistory(st, events) ==
  [st EXCEPT !.events = events]

\* ScheduleUi::load_events(events): the Event Store is replaced wholesale and
\* the History is cleared
ScheduleUi_load_events(st, events) ==
  [st EXCEPT !.events = events, !.history = << >>]

\* App::load_events: nothing unless scope_updated; get_events(time_range),
\* a panic when it fails, else the store is replaced and scope_updated reset
App_load_events(st) ==
  IF ~ st.scope THEN st
  ELSE LET s1 == BackendCall(st, "get_events", NoId)
       IN IF ~ s1.ok THEN s1
          ELSE [ScheduleUi_load_events(s1, s1.disk) EXCEPT !.scope = FALSE]

\* App::refresh_events that leaves the reload to the caller
refresh_events_NoLoad(st) ==
  IF ~ st.refresh THEN st
  ELSE LET s1 == BackendCall(st, "force_refresh", NoId)
       IN IF ~ s1.ok THEN s1
          ELSE [s1 EXCEPT !.refresh = FALSE, !.scope = FALSE]

\* App::refresh_events: nothing unless refresh_requested; force_refresh, a
\* panic when it fails, then load_events, then refresh_requested reset
refresh_events(st) ==
  IF ~ st.refresh THEN st
  ELSE LET s1 == BackendCall(st, "force_refresh", NoId)
       IN IF ~ s1.ok THEN s1
          ELSE LET s2 == App_load_events(s1)
               IN IF ~ s2.ok THEN s2 ELSE [s2 EXCEPT !.refresh = FALSE]

\* the events show puts a block for: those regularize_events leaves live
AppBlocks(events) ==
  {i \in DOMAIN events : ~ events[i].deleted /\ events[i].title # ""}

\* what the user does in one showing of the schedule
AppActs(events, ie) ==
  {[kind |-> k, i |-> 0, title |-> ""] :
     k \in {"none", "undo", "refresh", "scope"}}
    \cup {[kind |-> "title", i |-> i, title |-> t] :
            i \in AppBlocks(events), t \in AppTitles}
    \cup {[kind |-> "delete", i |-> i, title |-> ""] :
            i \in AppBlocks(events)}
    \cup (IF ie = NoEvent /\ Len(events) < MaxAppEvents
          THEN {[kind |-> "new", i |-> 0, title |-> ""]} ELSE {})
    \cup (IF ie # NoEvent
          THEN {[kind |-> "commit_new", i |-> 0, title |-> t] :
                  t \in {"n", ""}}
          ELSE {})

\* ScheduleUi::show under one act of the user: regularize_events, the act
\* (the context menu, the undo key, a new event that is only the scratch
\* copy, a commit or a deletion), remove_empty_events; the result records
\* the store as shown and as the act alone left it
AppShow(st, act, now, new_id) ==
  LET ev0 == regularize_events(st.events, now)
      committed ==
        IF act.kind = "title" THEN [ev0[act.i] EXCEPT !.title = act.title]
        ELSE IF act.kind = "commit_new" THEN [st.ie EXCEPT !.title = act.title]
        ELSE NoEvent
      deleted_id == IF act.kind = "delete" THEN ev0[act.i].id ELSE NoId
      r == IF act.kind = "undo" THEN handle_undo(ev0, st.history, now)
           ELSE apply_interacting_events(ev0, st.history, committed,
                                         deleted_id, now)
  IN [st EXCEPT
        !.events = remove_empty_events(r.events, now),
        !.history = r.history,
        !.refresh = (@ \/ act.kind = "refresh"),
        !.scope = (@ \/ act.kind \in {"refresh", "scope"}),
        !.ie = IF act.kind = "new" THEN Event(new_id, "", 900, 1800)
               ELSE IF act.kind = "commit_new" THEN NoEvent
               ELSE @,
        !.log = Append(@, ShowMark),
        !.shown = ev0,
        !.acted = r.events]

\* the loop of apply_event_changes that looks at the changed flag first
RECURSIVE FlushLoop_ChangedFirst(_, _)
FlushLoop_ChangedFirst(st, i) ==
  IF i > Len(st.events) THEN st
  ELSE LET e == st.events[i]
       IN IF e.changed
          THEN LET s1 == BackendCall(st, "update_event", e.id)
               IN IF ~ s1.ok THEN s1
                  ELSE FlushLoop_ChangedFirst(
                         [s1 EXCEPT !.disk = DiskUpdate(@, e)], i + 1)
          ELSE IF e.deleted
          THEN LET s1 == BackendCall(st, "delete_event", e.id)
               IN IF ~ s1.ok THEN s1
                  ELSE FlushLoop_ChangedFirst(
                         [s1 EXCEPT !.disk = DiskDelete(@, e.id)], i + 1)
          ELSE FlushLoop_ChangedFirst(st, i + 1)

\* the loop of apply_event_changes over the events of the store, from the
\* i-th on: delete_event for a deleted event, else update_event for a changed
\* one, and the first Err ends the loop
RECURSIVE FlushLoop(_, _)
FlushLoop(st, i) ==
  IF i > Len(st.events) THEN st
  ELSE LET e == st.events[i]
       IN IF e.deleted
          THEN LET s1 == BackendCall(st, "delete_event", e.id)
               IN IF ~ s1.ok THEN s1
                  ELSE FlushLoop([s1 EXCEPT !.disk = DiskDelete(@, e.id)],
                                 i + 1)
          ELSE IF e.changed
          THEN LET s1 == BackendCall(st, "update_event", e.id)
               IN IF ~ s1.ok THEN s1
                  ELSE FlushLoop([s1 EXCEPT !.disk = DiskUpdate(@, e)], i + 1)
          ELSE FlushLoop(st, i + 1)

\* App::apply_event_changes that makes the backend calls and leaves the store
App_apply_event_changes_NoReset(st) == FlushLoop(st, 1)

\* App::apply_event_changes with its Result: on Err the store is as it was,
\* on Ok the deleted events are dropped and the dirty flags reset
App_apply_event_changes(st) ==
  LET s1 == FlushLoop(st, 1)
  IN IF ~ s1.ok THEN s1
     ELSE [s1 EXCEPT !.events = apply_event_changes(s1.events)]

\* App::update: refresh_events, load_events, show, apply_event_changes; ok is
\* false when one of the expect calls panicked
update(st, act, now, new_id) ==
  LET s1 == refresh_events(st)
      s2 == IF s1.ok THEN App_load_events(s1) ELSE s1
      s3 == IF s2.ok THEN AppShow(s2, act, now, new_id) ELSE s2
      s4 == IF s3.ok THEN App_apply_event_changes(s3) ELSE s3
  IN [s4 EXCEPT !.flush_in = IF s3.ok THEN s3.events ELSE st.events,
                !.loaded = s2.events,
                !.loaded_history = s2.history]

\* no tick has run
NoAct == [kind |-> "start", i |-> 0, title |-> ""]

\* the ghost record of a tick: the state it started from and what it passed
NoTickRec ==
  [events |-> << >>, history |-> << >>, refresh |-> FALSE, scope |-> FALSE,
   disk |-> << >>, ie |-> NoEvent, loaded |-> << >>,
   loaded_history |-> << >>, shown |-> << >>, acted |-> << >>, flush_in |-> << >>]

AppIdle ==
  /\ ap_events = << >>
  /\ ap_history = << >>
  /\ ap_disk = << >>
  /\ ap_refresh = FALSE
  /\ ap_scope = FALSE
  /\ ap_ie = NoEvent
  /\ ap_log = << >>
  /\ ap_ok = TRUE
  /\ ap_tick = 0
  /\ ap_act = NoAct
  /\ ap_pre = NoTickRec

\* App::new: an empty store, refresh_requested and scope_updated both set
AppStart ==
  /\ ap_events = << >>
  /\ ap_history = << >>
  /\ ap_disk \in AppDisks
  /\ ap_refresh = TRUE
  /\ ap_scope = TRUE
  /\ ap_ie = NoEvent
  /\ ap_log = << >>
  /\ ap_ok = TRUE
  /\ ap_tick = 0
  /\ ap_act = NoAct
  /\ ap_pre = NoTickRec

\* the state a tick runs on, with the number of the backend call that fails
AppState(fail) ==
  [events |-> ap_events, history |-> ap_history, disk |-> ap_disk,
   refresh |-> ap_refresh, scope |-> ap_scope, ie |-> ap_ie,
   log |-> << >>, n |-> 0, ok |-> TRUE, fail |-> fail,
   loaded |-> ap_events, loaded_history |-> ap_history,
   shown |-> ap_events, acted |-> ap_events, flush_in |-> ap_events]

\* one tick of the event loop; after a panic there is no further tick
AppUpdate ==
  /\ ap_ok
  /\ ap_tick < MaxAppTicks
  /\ LET now == ap_tick + 1
         new_id == 10 + ap_tick
         reloaded == App_load_events(refresh_events(AppState(0)))
     IN \E act \in AppActs(reloaded.events, ap_ie) :
          \E calls \in {update(AppState(0), act, now, new_id).n} :
            \E fail \in 0..calls :
              \E r \in {update(AppState(fail), act, now, new_id)} :
                /\ ap_events' = r.events
                /\ ap_history' = r.history
                /\ ap_disk' = r.disk
                /\ ap_refresh' = r.refresh
                /\ ap_scope' = r.scope
                /\ ap_ie' = r.ie
                /\ ap_log' = r.log
                /\ ap_ok' = r.ok
                /\ ap_tick' = ap_tick + 1
                /\ ap_act' = act
                /\ ap_pre' = [events |-> ap_events, history |-> ap_history,
                              refresh |-> ap_refresh, scope |-> ap_scope,
                              disk |-> ap_disk, ie |-> ap_ie,
                              loaded |-> r.loaded,
                              loaded_history |-> r.loaded_history,
                              shown |-> r.shown, acted |-> r.acted,
                              flush_in |-> r.flush_in]
  /\ UNCHANGED <<lay_vars, mv_vars, hs_vars, ui_vars, pp_vars, bk_vars, gs_vars, lk_vars, ic_vars>>

AppNext == AppUpdate


-----------------------------------------------------------------------------
(* The two backends over one directory: backend/local_dir.rs and            *)
(* backend/indexed_local_dir.rs                                             *)

\* number of event files in the directory
MaxBkEvents == 2

\* the timestamps of the events and of the ranges asked for
MaxBkTime == 3

\* fn event_visible_in_range: e.start.max(start) <= e.end.min(end)
event_visible_in_range(e, start, end) ==
  MaxOf(e.start, start) <= MinOf(e.end, end)

\* LocalDir::get_events: every parsed file that is visible in the range
LocalDir_get_events(files, from, to) ==
  {e \in files : event_visible_in_range(e, from, to)}

\* IndexedLocalDir::all_event_entry_ids_between:
\* SELECT event_id FROM events WHERE start >= ? AND end <= ?
all_event_entry_ids_between(index, from, to) ==
  {row.id : row \in {r \in index : r.start >= from /\ r.end <= to}}

\* IndexedLocalDir::get_events: the files of the ids the index gives
IndexedLocalDir_get_events(index, files, from, to) ==
  {e \in files : e.id \in all_event_entry_ids_between(index, from, to)}

\* an empty directory and the index IndexedLocalDir::new builds over it
BkStart ==
  /\ bk_files = {}
  /\ bk_index = {}
  /\ bk_range = [from |-> 0, to |-> 0]
  /\ bk_local = {}
  /\ bk_indexed = {}
  /\ bk_op = "none"

\* IndexedLocalDir::update_event: LocalDir::update_event writes the file of
\* the event, update_event_entry upserts its row
BkUpdateEvent ==
  \E id \in 1..MaxBkEvents, start \in 0..MaxBkTime, end \in 0..MaxBkTime :
    /\ start < end
    /\ LET e == [id |-> id, start |-> start, end |-> end]
       IN /\ bk_files' = {f \in bk_files : f.id # id} \cup {e}
          /\ bk_index' = {r \in bk_index : r.id # id} \cup {e}
    /\ bk_op' = "update_event"
    /\ UNCHANGED <<bk_range, bk_local, bk_indexed>>
    /\ UNCHANGED <<lay_vars, mv_vars, hs_vars, ui_vars, pp_vars, ap_vars, gs_vars, lk_vars, ic_vars>>

\* Backend::get_events(from, to) asked of both backends
BkGetEvents ==
  \E from \in 0..MaxBkTime, to \in 0..MaxBkTime :
    /\ from <= to
    /\ bk_range' = [from |-> from, to |-> to]
    /\ bk_local' = LocalDir_get_events(bk_files, from, to)
    /\ bk_indexed' = IndexedLocalDir_get_events(bk_index, bk_files, from, to)
    /\ bk_op' = "get_events"
    /\ UNCHANGED <<bk_files, bk_index>>
    /\ UNCHANGED <<lay_vars, mv_vars, hs_vars, ui_vars, pp_vars, ap_vars, gs_vars, lk_vars, ic_vars>>


-----------------------------------------------------------------------------
(* Gestures and hotkeys over real timestamps: the pointer gestures at the   *)
(* level of the mutation rules, and handle_hotkeys                          *)

\* number of frames in one behaviour
MaxGsFrames == 3

\* the timestamps the pointer gives: the day before, the first day, the last
\* quarter of the first day, midnight, the day after
GsTimes == {-900, 0, 1800, 85500, 86400, 87300}

\* the stores at start: single-day events, one of them ending at midnight
GsStores ==
  {<<Event(1, "a", 900, 2700)>>,
   <<Event(1, "a", 900, 2700), Event(2, "b", 84600, 86400)>>}

\* key_direction_input that does not look at the InteractingEvent
key_direction_input_NoGuard(st, in, modifiers) ==
  IF in.kind = "key" /\ in.mods = modifiers
       /\ in.key \in {"down", "up", "left", "right"}
  THEN in.key
  ELSE "none"

\* key_direction_input(ui, modifiers): nothing while an InteractingEvent
\* exists, else the direction key pressed with exactly these modifiers
key_direction_input(st, in, modifiers) ==
  IF st.ie # NoEvent THEN "none"
  ELSE IF in.kind = "key" /\ in.mods = modifiers
            /\ in.key \in {"down", "up", "left", "right"}
  THEN in.key
  ELSE "none"

\* handle_hotkeys: handle_keyboard_focus_move, _focused_event_move,
\* _focused_event_resize, _new_event and _delete_event, in this order, on
\* st = [events, ie, state, focus, deleted]; current_time is midnight of the
\* first day, today is the first day, in.t is the nearest visible snapping
\* time (NoTime when it is not visible)
handle_hotkeys(st, in, now, new_id) ==
  LET Dist(a, b) == IF a >= b THEN a - b ELSE b - a
      \* events.iter().min_by_key(|e| e.start.abs_diff(t)): the first minimum
      Nearest(events, t) ==
        CHOOSE i \in DOMAIN events :
          \A j \in DOMAIN events :
            \/ Dist(events[i].start, t) < Dist(events[j].start, t)
            \/ Dist(events[i].start, t) = Dist(events[j].start, t) /\ i <= j
      find_nearest_event(events) ==
        IF events = << >> THEN NoId ELSE events[Nearest(events, 0)].id
      find_juxtaposed_event(i, offset, events) ==
        LET c == Nearest(events, events[i].start + offset * SECS_PER_DAY)
        IN IF c # i /\ DateOf(events[c].start) # DateOf(events[i].start)
           THEN events[c].id ELSE NoId
      find_adjacent_event(i, offset, events) ==
        IF i + offset < 1 \/ i + offset > Len(events) THEN NoId
        ELSE events[i + offset].id
      find_next_focus(i, dir, events) ==
        IF dir = "left" THEN find_juxtaposed_event(i, -1, events)
        ELSE IF dir = "right" THEN find_juxtaposed_event(i, 1, events)
        ELSE IF dir = "up" THEN find_adjacent_event(i, -1, events)
        ELSE find_adjacent_event(i, 1, events)
      handle_keyboard_focus_move(s) ==
        LET dir == key_direction_input(s, in, "none")
            i == FindFirst(s.events, s.focus)
            new_focus == IF i = 0 THEN find_nearest_event(s.events)
                         ELSE find_next_focus(i, dir, s.events)
        IN IF dir = "none" \/ new_focus = NoId THEN s
           ELSE [s EXCEPT !.focus = new_focus]
      handle_keyboard_focused_event_move(s) ==
        LET i == FindFirst(s.events, s.focus)
            dir == key_direction_input(s, in, "ctrl")
            e == s.events[i]
            new_start ==
              IF dir = "left" THEN e.start - SECS_PER_DAY
              ELSE IF dir = "right" THEN e.start + SECS_PER_DAY
              ELSE IF dir = "up" THEN e.start - min_event_duration
              ELSE e.start + min_event_duration
        IN IF i = 0 \/ dir = "none" THEN s
           ELSE [s EXCEPT !.events[i] = move_event(e, new_start, now)]
      handle_keyboard_focused_event_resize(s) ==
        LET i == FindFirst(s.events, s.focus)
            dir == key_direction_input(s, in, "shift")
            e == s.events[i]
            new_end ==
              IF dir = "left" THEN e.end - SECS_PER_DAY
              ELSE IF dir = "right" THEN e.end + SECS_PER_DAY
              ELSE IF dir = "up" THEN e.end - min_event_duration
              ELSE e.end + min_event_duration
        IN IF i = 0 \/ dir = "none" THEN s
           ELSE [s EXCEPT !.events[i] = move_event_end(e, new_end, now)]
      handle_keyboard_new_event(s) ==
        LET today == {j \in DOMAIN s.events :
                        /\ DateOf(s.events[j].end) = 0
                        /\ s.events[j].end % SECS_PER_DAY > 0}
            EndMax(S) == CHOOSE x \in {s.events[j].end : j \in S} :
                           \A j \in S : s.events[j].end <= x
            new_event_start ==
              IF today # {} THEN EndMax(today)
              ELSE IF in.t # NoTime THEN in.t
              ELSE IF s.events # << >> THEN EndMax(DOMAIN s.events)
              ELSE NoTime
        IN IF s.ie # NoEvent THEN s
           ELSE IF ~ (in.kind = "key" /\ in.mods = "none" /\ in.key = "n")
           THEN s
           ELSE IF new_event_start = NoTime THEN s
           ELSE [s EXCEPT
                   !.ie = move_event(new_event(new_id, now),
                                     new_event_start, now),
                   !.state = "Editing"]
      handle_keyboard_delete_event(s) ==
        IF s.ie # NoEvent THEN s
        ELSE IF FindFirst(s.events, s.focus) = 0 THEN s
        ELSE IF ~ (in.kind = "key" /\ in.mods = "none" /\ in.key = "x")
        THEN s
        ELSE [s EXCEPT !.deleted = s.focus]
  IN handle_keyboard_delete_event(
       handle_keyboard_new_event(
         handle_keyboard_focused_event_resize(
           handle_keyboard_focused_event_move(
             handle_keyboard_focus_move(st)))))

\* ScheduleUi::layout_type(event): a block within one day, or the
\* unimplemented!() arm
layout_type(event) ==
  IF DateOf(event.start) = DateOf(event.end) THEN "Single"
  ELSE IF event.end = MidnightOf(DateOf(event.start) + one_day) THEN "Single"
  ELSE "unimplemented"

\* what one frame can bring: a key, a pointer gesture on an event or on the
\* empty area while nothing is interacting, a pointer motion or the end of
\* the interaction while something is, the undo key
GsInputs(events, ie) ==
  LET In(kind, mods, key, i, t, t0) ==
        [kind |-> kind, mods |-> mods, key |-> key, i |-> i, t |-> t,
         t0 |-> t0]
      live == {i \in DOMAIN events : ~ events[i].deleted}
  IN {In("key", m, k, 0, NoTime, NoTime) :
        m \in {"none", "ctrl", "shift"},
        k \in {"down", "up", "left", "right"}}
       \cup {In("key", "none", "n", 0, t, NoTime) : t \in {NoTime, 1800}}
       \cup {In("key", "none", "x", 0, NoTime, NoTime),
             In("ctrl_z", "ctrl", "z", 0, NoTime, NoTime)}
       \cup (IF ie = NoEvent
             THEN {In(k, "none", "", i, t, NoTime) :
                     k \in {"drag", "resize_start", "resize_end", "clone"},
                     i \in live, t \in GsTimes}
                    \cup {In("edit", "none", "", i, NoTime, NoTime) :
                            i \in live}
                    \cup {In("create", "none", "", 0, t, t0) :
                            t \in GsTimes, t0 \in GsTimes}
             ELSE {In("motion", "none", "", 0, t, NoTime) : t \in GsTimes}
                    \cup {In(k, "none", "", 0, NoTime, NoTime) :
                            k \in {"commit", "escape"}})

\* the pointer part of a frame on st = [events, ie, state, focus, deleted]:
\* the interaction of the pressed event is started and follows the pointer
\* by the rule of its state; a commit hands the scratch copy over
GsPointer(st, in, now, new_id) ==
  LET e == st.events[in.i]
      created == assign_new_event_dates(in.t0, in.t, new_event(new_id, now))
  IN IF in.kind = "drag"
     THEN [st EXCEPT !.ie = move_event(e, in.t, now), !.state = "Dragging"]
     ELSE IF in.kind = "clone"
     THEN [st EXCEPT
             !.ie = move_event(clone_to_new_event(e, new_id, now), in.t, now),
             !.state = "Dragging"]
     ELSE IF in.kind = "resize_start"
     THEN [st EXCEPT !.ie = move_event_start(e, in.t, now),
                     !.state = "DraggingEventStart"]
     ELSE IF in.kind = "resize_end"
     THEN [st EXCEPT !.ie = move_event_end(e, in.t, now),
                     !.state = "DraggingEventEnd"]
     ELSE IF in.kind = "create"
     THEN [st EXCEPT !.ie = created.event, !.state = created.state]
     ELSE IF in.kind = "edit"
     THEN [st EXCEPT !.ie = e, !.state = "Editing"]
     ELSE IF in.kind = "motion"
     THEN [st EXCEPT !.ie =
             IF st.state = "Dragging" THEN move_event(@, in.t, now)
             ELSE IF st.state = "DraggingEventStart"
             THEN move_event_start(@, in.t, now)
             ELSE IF st.state = "DraggingEventEnd"
             THEN move_event_end(@, in.t, now)
             ELSE @]
     ELSE IF in.kind \in {"commit", "escape"}
     THEN [st EXCEPT !.ie = NoEvent, !.state = "None"]
     ELSE st

\* no frame has run
GsStart ==
  /\ gs_events = << >>
  /\ gs_history = << >>
  /\ gs_ie = NoEvent
  /\ gs_state = "None"
  /\ gs_focus = NoId
  /\ gs_tick = 0
  /\ gs_in = NoTime
  /\ gs_prev = NoTime
  /\ gs_hot = NoTime

\* one frame: the pointer, handle_hotkeys, handle_undo,
\* apply_interacting_events, remove_empty_events, and the flush of the tick;
\* the first frame shows the store that was loaded
GsFrame ==
  /\ gs_tick < MaxGsFrames
  /\ \E loaded \in (IF gs_tick = 0 THEN GsStores ELSE {gs_events}) :
     \E in \in GsInputs(loaded, gs_ie) :
       LET now == gs_tick + 1
           new_id == 10 + gs_tick
           st0 == [events |-> loaded, ie |-> gs_ie, state |-> gs_state,
                   focus |-> gs_focus, deleted |-> NoId]
           hot == handle_hotkeys(st0, in, now, new_id)
           st1 == GsPointer(hot, in, now, new_id)
           committed ==
             IF in.kind # "commit" THEN NoEvent
             ELSE IF gs_ie.title = "" THEN [gs_ie EXCEPT !.title = "n"]
             ELSE gs_ie
           undone == IF in.kind = "ctrl_z"
                     THEN handle_undo(st1.events, gs_history, now)
                     ELSE [events |-> st1.events, history |-> gs_history]
           r == apply_interacting_events(undone.events, undone.history,
                                         committed, st1.deleted, now)
       IN /\ gs_events' =
               apply_event_changes(remove_empty_events(r.events, now))
          /\ gs_history' = r.history
          /\ gs_ie' = st1.ie
          /\ gs_state' = st1.state
          /\ gs_focus' = st1.focus
          /\ gs_tick' = gs_tick + 1
          /\ gs_in' = in
          /\ gs_prev' = [events |-> loaded, history |-> gs_history,
                         ie |-> gs_ie, state |-> gs_state,
                         focus |-> gs_focus]
          /\ gs_hot' = [before |-> st0, after |-> hot]
  /\ UNCHANGED <<lay_vars, mv_vars, hs_vars, ui_vars, pp_vars, ap_vars, bk_vars, lk_vars, ic_vars>>

-----------------------------------------------------------------------------
(* The mutexes of the backend and of the notifier: app.rs, notifier.rs *)

\* number of calls the two threads start
MaxLkCalls == 3

\* the UI thread (eframe's update loop) and the thread that runs the
\* callbacks of the notifier's Timer
LkThreads == {"ui", "timer"}

\* Mutex::lock and the drop of its guard, as steps of a thread
Lock(m) == [op |-> "lock", m |-> m]

Unlock(m) == [op |-> "unlock", m |-> m]

\* NotifierContext::notify: the context is locked to the end of the function
notify == <<Lock("context"), Unlock("context")>>

\* NotifierContext::reschedule_events: the context is locked, then the
\* backend; the backend guard is dropped after get_events, the context guard
\* at the end of the function
reschedule_events ==
  <<Lock("context"), Lock("backend"), Unlock("backend"), Unlock("context")>>

\* Notifier::start: start_rescheduler locks the context to schedule the
\* repeating timer, then events_updated reschedules
Notifier_start == <<Lock("context"), Unlock("context")>> \o reschedule_events

\* App::update that keeps the backend guard over the call of the notifier
App_update_KeepGuard(refresh, scope, changed) ==
  LET backend == <<Lock("backend"), Unlock("backend")>>
  IN (IF refresh THEN backend ELSE << >>)
       \o (IF scope THEN backend ELSE << >>)
       \o (IF changed
           THEN <<Lock("backend"), Lock("notifier")>> \o reschedule_events
                  \o <<Unlock("notifier"), Unlock("backend")>>
           ELSE backend)

\* the locking of App::update: refresh_events locks the backend for
\* force_refresh when refresh_requested, load_events for get_events when
\* scope_updated, apply_event_changes for the flush; it drops that guard
\* and, when anything changed, locks the notifier for events_updated, which
\* runs reschedule_events
App_update(refresh, scope, changed) ==
  LET backend == <<Lock("backend"), Unlock("backend")>>
  IN (IF refresh THEN backend ELSE << >>)
       \o (IF scope THEN backend ELSE << >>)
       \o backend
       \o (IF changed
           THEN <<Lock("notifier")>> \o reschedule_events
                  \o <<Unlock("notifier")>>
           ELSE << >>)

\* App::new has built the NotifierContext and is about to run
\* Notifier::start on the UI thread; the timer thread has no callback to run
LkStart ==
  /\ lk_todo = [t \in LkThreads |->
                  IF t = "ui" THEN Notifier_start ELSE << >>]
  /\ lk_held = [t \in LkThreads |-> << >>]
  /\ lk_calls = 0

\* a thread that is between calls starts one: the UI thread a tick of
\* update, the timer thread a callback that is due
LkCall ==
  /\ lk_calls < MaxLkCalls
  /\ \E t \in LkThreads :
       /\ lk_todo[t] = << >>
       /\ \E steps \in (IF t = "ui"
                        THEN {App_update(r, s, c) :
                                r \in BOOLEAN, s \in BOOLEAN, c \in BOOLEAN}
                        ELSE {reschedule_events, notify}) :
            lk_todo' = [lk_todo EXCEPT ![t] = steps]
  /\ lk_calls' = lk_calls + 1
  /\ UNCHANGED lk_held
  /\ UNCHANGED <<lay_vars, mv_vars, hs_vars, ui_vars, pp_vars, ap_vars, bk_vars, gs_vars, ic_vars>>

\* Mutex::lock returns: no thread holds the mutex (std's Mutex is not
\* reentrant, so the thread that asks for it is among them)
LkLock ==
  /\ \E t \in LkThreads :
       /\ lk_todo[t] # << >>
       /\ Head(lk_todo[t]).op = "lock"
       /\ \A u \in LkThreads :
            \A i \in DOMAIN lk_held[u] : lk_held[u][i] # Head(lk_todo[t]).m
       /\ lk_held' = [lk_held EXCEPT ![t] = Append(@, Head(lk_todo[t]).m)]
       /\ lk_todo' = [lk_todo EXCEPT ![t] = Tail(@)]
  /\ UNCHANGED lk_calls
  /\ UNCHANGED <<lay_vars, mv_vars, hs_vars, ui_vars, pp_vars, ap_vars, bk_vars, gs_vars, ic_vars>>

\* a guard is dropped
LkUnlock ==
  /\ \E t \in LkThreads :
       /\ lk_todo[t] # << >>
       /\ Head(lk_todo[t]).op = "unlock"
       /\ lk_held' = [lk_held EXCEPT ![t] =
                        SelectSeq(@, LAMBDA m : m # Head(lk_todo[t]).m)]
       /\ lk_todo' = [lk_todo EXCEPT ![t] = Tail(@)]
  /\ UNCHANGED lk_calls
  /\ UNCHANGED <<lay_vars, mv_vars, hs_vars, ui_vars, pp_vars, ap_vars, bk_vars, gs_vars, ic_vars>>

-----------------------------------------------------------------------------
(* The iCalendar files of the local directory: ical.rs, local_dir.rs *)

\* largest instant of an event written to a file, in half seconds
MaxIcTime == 3

\* a DateTime: the instant in half seconds since the epoch and the offset of
\* its zone in hours
IcDateTime(utc, offset) == [utc |-> utc, offset |-> offset]

\* Option::None for a description or a TZID parameter
IcNone == "None"

\* utc_now(), the default of the builder's time fields
IcNow == IcDateTime(2 * MaxIcTime + 2, 0)

\* fn to_timestamp(time): naive_utc formatted as %Y%m%dT%H%M%SZ, that is the
\* whole seconds of the instant in UTC and the letter Z
to_timestamp(time) == [secs |-> time.utc \div 2, z |-> TRUE]

\* fn from_timestamp(s, tzid): a text that ends with Z is taken as UTC; one
\* without it is local time of the zone TZID names; else an error
from_timestamp(s, tzid) ==
  IF s.z THEN [ok |-> TRUE, time |-> IcDateTime(2 * s.secs, 0)]
  ELSE IF tzid = "Asia/Shanghai"
  THEN [ok |-> TRUE, time |-> IcDateTime(2 * (s.secs - 8 * 3600), 0)]
  ELSE [ok |-> FALSE, time |-> IcNow]

\* a content line of the VEVENT
IcProperty(name, value) == [name |-> name, value |-> value, tzid |-> IcNone]

\* ICal::generate(event): the properties of the one VEVENT in the order they
\* are pushed; Event::new(uid, dtstamp) puts UID and DTSTAMP first, and
\* DESCRIPTION is written when the event has one
ICal_generate(event) ==
  <<IcProperty("UID", event.id),
    IcProperty("DTSTAMP", to_timestamp(event.timestamp)),
    IcProperty("DTSTART", to_timestamp(event.start)),
    IcProperty("DTEND", to_timestamp(event.end)),
    IcProperty("LAST-MODIFIED", to_timestamp(event.modified_at)),
    IcProperty("CREATED", to_timestamp(event.created_at)),
    IcProperty("SUMMARY", event.title)>>
    \o (IF event.description # IcNone
        THEN <<IcProperty("DESCRIPTION", event.description)>>
        ELSE << >>)

\* ICal::parse(calendar_name, content): the match over the properties of the
\* VEVENT in the order of the file, then EventBuilder::build, which fails
\* when id, title, start or end was not set and gives the other fields
\* their defaults (utc_now() for the times, None for the description)
ICal_parse(calendar_name, content) ==
  LET unset == [ok |-> TRUE, set |-> {}, calendar |-> calendar_name,
                id |-> "", title |-> "", start |-> IcNow, end |-> IcNow,
                created_at |-> IcNow, modified_at |-> IcNow]
      Time(b, p, field) ==
        LET t == from_timestamp(p.value, p.tzid)
        IN IF ~ t.ok THEN [b EXCEPT !.ok = FALSE]
           ELSE [b EXCEPT ![field] = t.time, !.set = @ \cup {field}]
      Arm(b, p) ==
        IF ~ b.ok THEN b
        ELSE IF p.name = "UID"
        THEN [b EXCEPT !.id = p.value, !.set = @ \cup {"id"}]
        ELSE IF p.name = "SUMMARY"
        THEN [b EXCEPT !.title = p.value, !.set = @ \cup {"title"}]
        ELSE IF p.name = "DTSTAMP" THEN Time(b, p, "created_at")
        ELSE IF p.name = "DTSTART" THEN Time(b, p, "start")
        ELSE IF p.name = "DTEND" THEN Time(b, p, "end")
        ELSE IF p.name = "CREATED" THEN Time(b, p, "created_at")
        ELSE IF p.name = "LAST-MODIFIED" THEN Time(b, p, "modified_at")
        ELSE b
      Loop[i \in 0..Len(content)] ==
        IF i = 0 THEN unset ELSE Arm(Loop[i - 1], content[i])
      b == Loop[Len(content)]
  IN IF ~ b.ok \/ ~ ({"id", "title", "start", "end"} \subseteq b.set)
     THEN [ok |-> FALSE]
     ELSE [ok |-> TRUE, id |-> b.id, calendar |-> b.calendar,
           title |-> b.title, start |-> b.start, end |-> b.end,
           timestamp |-> IcNow, created_at |-> b.created_at,
           modified_at |-> b.modified_at, description |-> IcNone]

\* the events the backend is asked to write
IcEvents ==
  {[id |-> "1", calendar |-> "cal", title |-> title, start |-> start,
    end |-> IcDateTime(start.utc + 2, start.offset),
    timestamp |-> stamp, created_at |-> created, modified_at |-> modified,
    description |-> description] :
     title \in {"a", "b"},
     description \in {IcNone, "d"},
     start \in {IcDateTime(t, o) : t \in 0..MaxIcTime, o \in {0, 8}},
     stamp \in {IcDateTime(t, 0) : t \in {0, MaxIcTime}},
     created \in {IcDateTime(t, 8) : t \in {1, MaxIcTime}},
     modified \in {IcDateTime(t, 8) : t \in {2, MaxIcTime}}}

\* no file of the directory is written or read
IcIdle ==
  /\ ic_event = [id |-> IcNone]
  /\ ic_file = << >>
  /\ ic_read = [ok |-> FALSE]
  /\ ic_step = "start"

\* the backend is about to be handed an event
IcStart ==
  /\ ic_event \in IcEvents
  /\ ic_file = << >>
  /\ ic_read = [ok |-> FALSE]
  /\ ic_step = "start"

\* LocalDir::update_event(event): the file of the event is written with
\* what generate gives
IcUpdateEvent ==
  /\ ic_step = "start"
  /\ ic_file' = ICal_generate(ic_event)
  /\ ic_step' = "written"
  /\ UNCHANGED <<ic_event, ic_read>>
  /\ UNCHANGED <<lay_vars, mv_vars, hs_vars, ui_vars, pp_vars, ap_vars, bk_vars, gs_vars, lk_vars>>

\* LocalDir::get_event(id): the file is read and parsed
IcGetEvent ==
  /\ ic_step = "written"
  /\ ic_read' = ICal_parse("cal", ic_file)
  /\ ic_step' = "read"
  /\ UNCHANGED <<ic_event, ic_file>>
  /\ UNCHANGED <<lay_vars, mv_vars, hs_vars, ui_vars, pp_vars, ap_vars, bk_vars, gs_vars, lk_vars>>

-----------------------------------------------------------------------------
(* Specifications *)

LayoutInit == LayStart /\ MvIdle /\ HsIdle /\ UiIdle /\ PpIdle /\ AppIdle /\ BkStart /\ GsStart /\ LkStart /\ IcIdle

\* MarkusAlgorithm::compute on every bounded input
SpecLayout == LayoutInit /\ [][LayNext]_vars

MoveInit == MvStart /\ LayIdle /\ HsIdle /\ UiIdle /\ PpIdle /\ AppIdle /\ BkStart /\ GsStart /\ LkStart /\ IcIdle

\* the mutation rules on every bounded event
SpecMove == MoveInit /\ [][MvNext]_vars

HistInit == HsStart /\ LayIdle /\ MvIdle /\ UiIdle /\ PpIdle /\ AppIdle /\ BkStart /\ GsStart /\ LkStart /\ IcIdle

\* commits, deletes, undos and flushes over a small Event Store
SpecHist == HistInit /\ [][HistNext]_vars

UiInit == UiStart /\ LayIdle /\ MvIdle /\ HsIdle /\ PpIdle /\ AppIdle /\ BkStart /\ GsStart /\ LkStart /\ IcIdle

\* the frames of the schedule widget under pointer and keyboard input
SpecUI == UiInit /\ [][UiNext]_vars

PointerInit == PpStart /\ LayIdle /\ MvIdle /\ HsIdle /\ UiIdle /\ AppIdle /\ BkStart /\ GsStart /\ LkStart /\ IcIdle

\* drag-creation and resizing under pointer positions in and around the grid
SpecPointer == PointerInit /\ [][PpNext]_vars

AppInit == AppStart /\ LayIdle /\ MvIdle /\ HsIdle /\ UiIdle /\ PpIdle /\ BkStart /\ GsStart /\ LkStart /\ IcIdle

\* the ticks of the event loop: reload, show, flush, over a failing backend
SpecApp == AppInit /\ [][AppNext]_vars


BackendInit == BkStart /\ LayIdle /\ MvIdle /\ HsIdle /\ UiIdle /\ PpIdle /\ AppIdle /\ GsStart /\ LkStart /\ IcIdle

\* one directory written through the indexed backend and read through both
SpecBackend == BackendInit /\ [][BkUpdateEvent \/ BkGetEvents]_vars


GestureInit == GsStart /\ LayIdle /\ MvIdle /\ HsIdle /\ UiIdle /\ PpIdle /\ AppIdle /\ BkStart /\ LkStart /\ IcIdle

\* pointer gestures, hotkeys and undo over events near the day boundaries
SpecGesture == GestureInit /\ [][GsFrame]_vars

LocksInit == LkStart /\ LayIdle /\ MvIdle /\ HsIdle /\ UiIdle /\ PpIdle /\ AppIdle /\ BkStart /\ GsStart /\ IcIdle

\* the UI thread and the timer thread on the three mutexes
SpecLocks == LocksInit /\ [][LkCall \/ LkLock \/ LkUnlock]_vars

ICalInit == IcStart /\ LayIdle /\ MvIdle /\ HsIdle /\ UiIdle /\ PpIdle /\ AppIdle /\ BkStart /\ GsStart /\ LkStart

\* an event written to its file and read back
SpecICal == ICalInit /\ [][IcUpdateEvent \/ IcGetEvent]_vars

-----------------------------------------------------------------------------
(* Claims *)

\* the spans [c1/w1, (c1+1)/w1] and [c2/w2, (c2+1)/w2] share more than a point
SpansIntersect(a, b) ==
  /\ a.col * b.width < (b.col + 1) * a.width
  /\ b.col * a.width < (a.col + 1) * b.width

LayOverlappingPairs ==
  {p \in (DOMAIN lay_events) \X (DOMAIN lay_events) :
     p[1] # p[2] /\ overlaps(lay_events[p[1]], lay_events[p[2]])}

LayPairSeparated(i, j) ==
  /\ i \in DOMAIN lay_layout /\ j \in DOMAIN lay_layout
  /\ lay_layout[i].group = lay_layout[j].group
  /\ lay_layout[i].col # lay_layout[j].col
  /\ ~ SpansIntersect(lay_layout[i], lay_layout[j])

\* C1 as stated: for every input with start <= end, any two events that
\* overlap in time are in the same group, in different columns, and their
\* spans do not intersect.
C1_AsStated ==
  lay_done => \A p \in LayOverlappingPairs : LayPairSeparated(p[1], p[2])

\* C1 amended: for every input whose events all have positive duration
\* (start < end), any two events that overlap in time are in the same group,
\* in different columns, and their spans do not intersect.
C1_NonOverlap ==
  (lay_done /\ \A i \in DOMAIN lay_events : lay_events[i].start < lay_events[i].end)
    => \A p \in LayOverlappingPairs : LayPairSeparated(p[1], p[2])

\* C1 witness: a computed layout of three positive-duration events of which
\* two pairs overlap and one pair does not
C1_Witness ==
  /\ lay_done
  /\ Len(lay_events) = 3
  /\ \A i \in DOMAIN lay_events : lay_events[i].start < lay_events[i].end
  /\ Cardinality(LayOverlappingPairs) = 4
  /\ \A p \in LayOverlappingPairs : LayPairSeparated(p[1], p[2])

MvDuration(e) == e.end - e.start

MvCalled == mv_op # "none"

\* the last call changed the event
MvChanged == MvCalled /\ mv_event # mv_prev

\* C3 as stated: after any call of move_event_start, move_event_end or
\* move_event that changes the event, end - start >= min_event_duration.
C3_AsStated ==
  MvChanged => MvDuration(mv_event) >= min_event_duration

\* C3 amended: after a call of move_event_start or move_event_end that changes
\* the event, end - start >= min_event_duration, whatever the event was before;
\* after a call of move_event that changes the event, end - start is what it
\* was before the call, so it is >= min_event_duration when it was before.
C3_MinDuration ==
  MvChanged =>
    IF mv_op = "move_event"
    THEN /\ MvDuration(mv_event) = MvDuration(mv_prev)
         /\ (MvDuration(mv_prev) >= min_event_duration
               => MvDuration(mv_event) >= min_event_duration)
    ELSE MvDuration(mv_event) >= min_event_duration

\* C3 witness: a resize has changed an event that was shorter than
\* min_event_duration
C3_Witness ==
  /\ MvChanged
  /\ mv_op \in {"move_event_start", "move_event_end"}
  /\ MvDuration(mv_prev) < min_event_duration
  /\ MvDuration(mv_event) >= min_event_duration

\* the interval between a and b spans two calendar days: the dates differ and
\* the later one is not exactly midnight of the day after the earlier one
SpansTwoDays(a, b) ==
  /\ DateOf(a) # DateOf(b)
  /\ MaxOf(a, b) # (DateOf(MinOf(a, b)) + 1) * SECS_PER_DAY

\* the endpoints the last call asked for
MvWantedStart ==
  IF mv_op = "move_event_end" THEN mv_prev.start ELSE mv_arg

MvWantedEnd ==
  IF mv_op = "move_event_end" THEN mv_arg
  ELSE IF mv_op = "move_event_start" THEN mv_prev.end
  ELSE mv_arg + MvDuration(mv_prev)

\* C4: a call of move_event_start, move_event_end or move_event whose result
\* would span two calendar days leaves start, end, changed and modified_at
\* (every field of the event) as they were.
C4_DayBoundaryGuard ==
  (MvCalled /\ SpansTwoDays(MvWantedStart, MvWantedEnd)) => mv_event = mv_prev

\* C4 witness: a call that asked for an interval of at least
\* min_event_duration spanning two days, and left the event unchanged
C4_Witness ==
  /\ MvCalled
  /\ SpansTwoDays(MvWantedStart, MvWantedEnd)
  /\ MvWantedEnd - MvWantedStart >= min_event_duration
  /\ (MvWantedStart # mv_prev.start \/ MvWantedEnd # mv_prev.end)
  /\ mv_event = mv_prev

\* C5: a resize (move_event_start or move_event_end) that would invert start
\* and end or make the event shorter than min_event_duration leaves every
\* field of the event, the changed flag included, as it was.
C5_ResizeRejected ==
  (/\ mv_op \in {"move_event_start", "move_event_end"}
   /\ MvWantedEnd - MvWantedStart < min_event_duration)
    => mv_event = mv_prev

\* C5 witness: move_event_end to one minute before the start of a clean
\* event, which is left clean and unchanged
C5_Witness ==
  /\ mv_op = "move_event_end"
  /\ mv_arg = mv_prev.start - 60
  /\ MvDuration(mv_prev) >= min_event_duration
  /\ ~ mv_prev.changed
  /\ mv_event = mv_prev

\* C2: commit (apply the Change, save it to History) followed by undo, with or
\* without a flush in between, leaves the live events of the Event Store (ids,
\* titles, starts, ends) as they were before the commit.
C2_AsStated ==
  hs_phase = "undone" => LiveBag(hs_events) = hs_pre

\* the round trip of C2 when no flush ran between the commit and the undo
C2_NoFlushBetween ==
  hs_phase = "undone" /\ ~ hs_flushed => LiveBag(hs_events) = hs_pre

\* the ids of the events of a store
StoreIds(events) == {events[i].id : i \in DOMAIN events}

\* the number of Changes the last frame pushed onto the History
UiPushed == Len(ui_history) - Len(ui_prev.history)

\* the InteractingEvent outlived the last frame: the interaction was in
\* progress before the frame and is not finished after it
UiContinues ==
  /\ ui_prev.ie # NoIE
  /\ ui_ie # NoIE
  /\ ui_ie.event.id = ui_prev.ie.event.id

UiWidened(i) ==
  LET old == ui_prev.events[i]
  IN /\ old.end - old.start < min_event_duration
     /\ old.id # ui_ie.event.id
     /\ ui_events[i] = [old EXCEPT !.end = old.start + min_event_duration,
                                   !.modified_at = ui_tick]

UiGestureOnEvent ==
  /\ ui_prev.ie = NoIE
  /\ ui_res.widget \in StoreIds(ui_prev.events)

\* the last frame left an InteractingEvent in this state, made from the
\* event the gesture was on
UiStarted(state) ==
  /\ ui_ie.state = state
  /\ \/ ui_ie.event.id = ui_res.widget
     \/ /\ state = "Dragging"
        /\ ui_ie.event.id \notin StoreIds(ui_prev.events)
        /\ Essence(ui_ie.event).title
             = ui_prev.events[FindFirst(ui_prev.events, ui_res.widget)].title

\* C7, as stated: from Idle, a Clicked by the primary button on an existing
\* event gives Editing; a DragStarted gives DraggingEventStart, DraggingEventEnd
\* or Dragging as the press origin lies in the upper margin, the lower margin
\* or the body; no other interaction result creates an InteractingEvent.
C7_AsStated ==
  UiGestureOnEvent =>
    IF ui_res.res = "Clicked" /\ ui_in.button = "primary"
    THEN UiStarted("Editing")
    ELSE IF ui_res.res = "DragStarted"
    THEN IF ui_origin = "upper" THEN UiStarted("DraggingEventStart")
         ELSE IF ui_origin = "lower" THEN UiStarted("DraggingEventEnd")
         ELSE UiStarted("Dragging")
    ELSE ui_ie = NoIE

\* C7: from Idle, a Clicked by the primary button on an existing event gives
\* Editing; a DragStarted with the primary button down gives
\* DraggingEventStart, DraggingEventEnd or Dragging as the press origin lies
\* in the upper margin, the lower margin or the body (with Ctrl held the
\* dragged event is a copy with a new id); no other interaction result, and
\* no gesture of another button, creates an InteractingEvent.
C7_GestureStarts ==
  UiGestureOnEvent =>
    IF ui_res.res = "Clicked" /\ ui_in.button = "primary"
    THEN UiStarted("Editing")
    ELSE IF ui_res.res = "DragStarted" /\ ui_in.button = "primary"
    THEN IF ui_origin = "upper" THEN UiStarted("DraggingEventStart")
         ELSE IF ui_origin = "lower" THEN UiStarted("DraggingEventEnd")
         ELSE UiStarted("Dragging")
    ELSE ui_ie = NoIE

\* a slow drag pressed in the upper margin of an event started a resize of
\* its start
C7_Witness ==
  /\ UiGestureOnEvent
  /\ ui_res.res = "DragStarted"
  /\ ui_in.late
  /\ ui_origin = "upper"
  /\ ui_ie.state = "DraggingEventStart"

\* the last frame is the first one after the release of a drag of an event
\* of the store: the button is up and nothing is being dragged any more
UiDragOfStoredReleased ==
  /\ ui_prev.ie.state \in DragStates
  /\ ui_prev.ie.event.id \in StoreIds(ui_prev.events)
  /\ ui_in.ev = "none"
  /\ ui_btn = "up"

\* the last frame is the one of the release of the drag on the empty area
\* that created the InteractingEvent
UiDragOfNewReleased ==
  /\ ui_prev.ie.state \in DragStates
  /\ ui_prev.ie.event.id = ui_new_id
  /\ ui_prev.ie.event.id \notin StoreIds(ui_prev.events)
  /\ ui_in.ev = "release"
  /\ ui_drag = EmptyArea

\* the title of a drag-created event is being edited
UiEditingNew ==
  /\ ui_ie.state = "Editing"
  /\ ui_ie.event.id = ui_new_id
  /\ ui_ie.event.id \notin StoreIds(ui_events)

C8_WitnessNew ==
  /\ UiDragOfNewReleased
  /\ ui_ie.state = "Editing"
  /\ ui_ie.event.end > ui_ie.event.start

\* the last frame began with event A in Editing and detected the start of a
\* drag with the primary button on another widget, without Escape
UiDragStartsElsewhere ==
  /\ ui_prev.ie.state = "Editing"
  /\ ~ ui_in.esc
  /\ ui_res.res = "DragStarted"
  /\ ui_res.widget # ui_prev.ie.event.id
  /\ ui_in.button = "primary"

\* the last frame committed the edit of the event that was in Editing
UiEditCommitted ==
  /\ UiPushed = 1
  /\ ui_history[Len(ui_history)].new.id = ui_prev.ie.event.id
  /\ ui_history[Len(ui_history)].new.title = ui_in.typed
       \/ (ui_in.typed = NoTyping
             /\ ui_history[Len(ui_history)].new.title
                  = ui_prev.ie.event.title)

\* C9, as stated: when a drag starts on another event or on the empty canvas
\* while event A is in Editing, A's edit is committed before the new
\* InteractingEvent replaces it, or A is still being edited: the edit is
\* never lost.
C9_AsStated ==
  UiDragStartsElsewhere =>
    \/ UiEditCommitted
    \/ ui_ie.state = "Editing" /\ ui_ie.event.id = ui_prev.ie.event.id

\* the edit is not lost when the pointer does not move more than
\* MAX_CLICK_DIST in the frame of the press
C9_PressWithoutMove ==
  UiDragStartsElsewhere /\ ui_in.ev # "press" =>
    \/ UiEditCommitted
    \/ ui_ie.state = "Editing" /\ ui_ie.event.id = ui_prev.ie.event.id

\* the last frame began with an event in Editing and got the Escape key
UiEscape ==
  /\ ui_prev.ie.state = "Editing"
  /\ ui_in.esc

\* C10: Escape while an event is in Editing discards the InteractingEvent:
\* nothing is pushed onto the History and the Event Store is unchanged (an
\* existing event keeps its title, a new event is not added), also when the
\* editor loses the focus in the same frame.
C10_EscapeDiscards ==
  UiEscape =>
    /\ ui_history = ui_prev.history
    /\ ui_events = ui_prev.events
    /\ ui_ie.event.id # ui_prev.ie.event.id

\* Escape and a loss of focus came in the same frame, after the title of an
\* event of the store was edited
C10_Witness ==
  /\ UiEscape
  /\ ui_in.lost
  /\ \E i \in DOMAIN ui_events :
       /\ ui_events[i].id = ui_prev.ie.event.id
       /\ ui_events[i].title # ui_prev.ie.event.title
  /\ ui_ie = NoIE

\* the event the title editor of the last frame left: the scratch copy with
\* the typed title
UiEdited ==
  IF ui_in.typed = NoTyping THEN ui_prev.ie.event
  ELSE [ui_prev.ie.event EXCEPT !.title = ui_in.typed]

\* the last frame finished an Editing interaction: the event is no longer in
\* the InteractingEvent slot
UiEditFinished ==
  /\ ui_prev.ie.state = "Editing"
  /\ ui_ie.event.id # ui_prev.ie.event.id

\* the edited event is the same as the stored event of its id
UiEditedUnchanged ==
  \E i \in DOMAIN ui_prev.events :
    /\ ui_prev.events[i].id = UiEdited.id
    /\ Essence(ui_prev.events[i]) = Essence(UiEdited)

\* C11, as stated: finishing an Editing interaction whose title is empty, or
\* whose event is unchanged from the stored event, pushes no Change onto the
\* History and leaves the Event Store unchanged.
C11_AsStated ==
  UiEditFinished /\ (UiEdited.title = "" \/ UiEditedUnchanged) =>
    UiPushed = 0 /\ ui_events = ui_prev.events

\* the same for an unchanged event alone
C11_UnchangedOnly ==
  UiEditFinished /\ UiEditedUnchanged =>
    UiPushed = 0 /\ ui_events = ui_prev.events

\* the same for an empty title alone
C11_EmptyOnly ==
  UiEditFinished /\ UiEdited.title = "" =>
    UiPushed = 0 /\ ui_events = ui_prev.events

\* the last step was the DragStarted of a drag on the empty canvas and the
\* pointer was at a time: the InteractingEvent was created
PpCreated == pp_op = "DragStarted" /\ pp_time # NoTime

\* C12, as stated: the InteractingEvent a drag on the empty canvas creates
\* with snapping has, at the moment it is created, a start that is a multiple
\* of the snapping duration and an end equal to start + min_event_duration.
C12_AsStated ==
  PpCreated /\ ~ pp_shift =>
    /\ pp_event.start % snapping_duration = 0
    /\ pp_event.end = pp_event.start + min_event_duration

\* what the created event is: both ends at the snapped time of the pointer
C12_ZeroLength ==
  PpCreated /\ ~ pp_shift =>
    /\ pp_event.start % snapping_duration = 0
    /\ pp_event.start = pp_time
    /\ pp_event.end = pp_time

\* the last step assigned the dates of the event under creation
PpAssigned == pp_op \in {"DragStarted", "Dragged"} /\ pp_time # NoTime

C13_WitnessEqual ==
  /\ pp_op = "Dragged" /\ pp_time = pp_init
  /\ pp_state = "DraggingEventStart"

\* the pointer went above the anchor on the same day
C13_WitnessBefore ==
  /\ pp_op = "Dragged" /\ pp_time # NoTime /\ pp_time < pp_init
  /\ on_the_same_day(pp_init, pp_time)
  /\ pp_event.start = pp_time

\* the last step mapped the pointer position with snapping and got a time
PpSnappedAccepted ==
  /\ pp_op \in {"DragStarted", "Dragged", "Resized"}
  /\ ~ pp_shift
  /\ pp_time # NoTime

\* the seconds of the day under the pointer
PpSecondsOfDay == (SECS_PER_DAY * pp_pos.y) \div content_height

\* the offset of the mapped time from midnight of the pointed day
PpOffset == pp_time - MidnightOf(TruncDiv(pp_pos.x, day_width))

\* C17: for every position the snapped mapping accepts, the offset of the
\* returned time from midnight of the pointed day is the seconds of the day
\* under the pointer floored to a multiple of snapping_duration and clamped to
\* [0, 86400], hence a multiple of snapping_duration.
C17_Snapped ==
  PpSnappedAccepted =>
    /\ PpOffset =
         MinOf(MaxOf(0, (PpSecondsOfDay \div snapping_duration)
                          * snapping_duration),
               SECS_PER_DAY)
    /\ PpOffset % snapping_duration = 0

\* a pointer below the bottom of the day gives midnight of the next day
C17_Witness ==
  /\ PpSnappedAccepted
  /\ pp_pos.y > content_height
  /\ PpSecondsOfDay > SECS_PER_DAY
  /\ pp_time = MidnightOf(TruncDiv(pp_pos.x, day_width) + 1)

\* a pointer inside the day gives a slot inside the day
C17_WitnessInside ==
  /\ PpSnappedAccepted
  /\ PpSecondsOfDay % snapping_duration # 0
  /\ PpOffset > 0 /\ PpOffset < SECS_PER_DAY

\* the pointer of the last step was outside the grid
PpOutside ==
  \/ pp_pos.x < 0
  \/ pp_pos.x >= day_count * day_width
  \/ pp_pos.y < 0

\* the last step mapped a pointer position
PpMapped == pp_op \in {"DragStarted", "Dragged", "Resized"}

\* C18, as stated: both mappings give None, and the step mutates nothing, for
\* every position with x < 0, x >= day_count * day_width or y above the top;
\* the unsnapped mapping gives None unless the vertical fraction is strictly
\* inside (0, 1).
C18_AsStated ==
  PpMapped =>
    /\ PpOutside => pp_time = NoTime /\ pp_event = pp_prev
    /\ pp_shift /\ ~ (pp_pos.y > 0 /\ pp_pos.y < content_height) =>
         pp_time = NoTime

\* what holds: None and no mutation for x <= -day_width, for
\* x >= day_count * day_width and for y above the top
C18_WholeColumns ==
  PpMapped =>
    /\ (\/ pp_pos.x <= - day_width
        \/ pp_pos.x >= day_count * day_width
        \/ pp_pos.y < 0) => pp_time = NoTime /\ pp_event = pp_prev
    /\ pp_shift /\ ~ (pp_pos.y > 0 /\ pp_pos.y < content_height) =>
         pp_time = NoTime

\* the last frame detected the start of a drag with Ctrl held on the body of
\* an event of the store
UiCloneStarted ==
  /\ ui_res.widget \in StoreIds(ui_prev.events)
  /\ ui_res.res = "DragStarted"
  /\ ui_res.state = "EventCloning"

\* the last frame began with the duplicate of an event being dragged
UiCloneDragged ==
  /\ ui_prev.ie.state = "Dragging"
  /\ ui_prev.ie.event.id \notin StoreIds(ui_prev.events)

\* C14: a drag started with Ctrl held on the body of an existing event gives
\* an InteractingEvent in state Dragging that holds a duplicate of the event
\* under an id no event of the store has; the frames of the drag leave the
\* store and the History as they are; the gesture ends with the duplicate
\* committed as Change::Added, the store one event longer and its other
\* events untouched.
C14_CloneDrag ==
  /\ UiCloneStarted =>
       LET i == FindFirst(ui_events, ui_res.widget)
       IN /\ ui_ie.state = "Dragging"
          /\ ui_ie.event.id \notin StoreIds(ui_events)
          /\ Essence(ui_ie.event)
               = [Essence(ui_events[i]) EXCEPT !.id = ui_ie.event.id]
  /\ UiCloneDragged /\ UiContinues =>
       ui_events = ui_prev.events /\ UiPushed = 0
  /\ UiCloneDragged /\ ~ UiContinues =>
       /\ ui_ie = NoIE
       /\ UiPushed = 1
       /\ ui_history[Len(ui_history)] = Added(ui_prev.ie.event)
       /\ Len(ui_events) = Len(ui_prev.events) + 1
       /\ \A j \in DOMAIN ui_prev.events : ui_events[j] = ui_prev.events[j]
       /\ Essence(ui_events[Len(ui_events)]) = Essence(ui_prev.ie.event)

\* a duplicate that was dragged to another time was committed
C14_Witness ==
  /\ UiCloneDragged /\ ~ UiContinues
  /\ Len(ui_events) = Len(ui_prev.events) + 1
  /\ ui_history[Len(ui_history)].kind = "Added"
  /\ \E j \in DOMAIN ui_prev.events :
       /\ ui_events[j].title = ui_events[Len(ui_events)].title
       /\ ui_events[j].start # ui_events[Len(ui_events)].start

\* a drag with Ctrl held made the duplicate
C14_WitnessStarted == UiCloneStarted /\ ui_ie.state = "Dragging"

\* how many times detect_interaction returned res for widget w since the
\* last press
UiEmitted(w, res) ==
  Cardinality({i \in DOMAIN ui_emit : ui_emit[i] = <<w, res>>})

\* the widgets detect_interaction returned something for since the last press
UiEmitters == {ui_emit[i][1] : i \in DOMAIN ui_emit}

\* since the last press, every widget got at most one of Clicked and
\* DragStarted, at most once
UiOncePerPress ==
  \A w \in UiEmitters : UiEmitted(w, "Clicked") + UiEmitted(w, "DragStarted") <= 1

\* a frame that clears a DetectionFinishFlag is a frame with no button down
UiLatchCleared ==
  \A w \in ui_flags : w \notin ui_flags' => ui_btn' = "up"

\* C15: within one press detect_interaction returns Clicked at most once and
\* DragStarted at most once for a widget, and never both; the flag of a
\* widget is cleared only in a frame in which no pointer button is down.
C15_OncePerPress == [] UiOncePerPress /\ [][UiLatchCleared]_vars

\* a drag was started, went on for a frame and was released: one DragStarted
\* in the press, and the flag is cleared after the release
C15_Witness ==
  /\ Len(ui_emit) >= 3
  /\ ui_emit[Len(ui_emit)][2] = "DragReleased"
  /\ UiEmitted(ui_emit[1][1], "DragStarted") = 1
  /\ UiEmitted(ui_emit[1][1], "Dragged") >= 1
  /\ ui_btn = "up"

\* C16, as stated: in what detect_interaction returns for one widget during
\* one press, every Dragged and the DragReleased come after a DragStarted of
\* that press.
C16_AsStated ==
  \A i \in DOMAIN ui_emit :
    ui_emit[i][2] \in {"Dragged", "DragReleased"} =>
      \E j \in 1..(i - 1) : ui_emit[j] = <<ui_emit[i][1], "DragStarted">>

\* the same for Dragged alone
C16_DraggedAfterStart ==
  \A i \in DOMAIN ui_emit :
    ui_emit[i][2] = "Dragged" =>
      \E j \in 1..(i - 1) : ui_emit[j] = <<ui_emit[i][1], "DragStarted">>

\* the same for DragReleased alone
C16_ReleasedAfterStart ==
  \A i \in DOMAIN ui_emit :
    ui_emit[i][2] = "DragReleased" =>
      \E j \in 1..(i - 1) : ui_emit[j] = <<ui_emit[i][1], "DragStarted">>

\* the ids of the events handed to compute
LayIds == {lay_events[i].id : i \in DOMAIN lay_events}

\* the groups compute ended with that hold the event id
LayGroupsOf(id) ==
  LET gs == MarkusGroups(lay_events)
  IN {g \in DOMAIN gs : id \in DOMAIN gs[g].cols}

\* C19: every event of the input of MarkusAlgorithm::compute gets exactly one
\* span, and its column col and the final width w of its group satisfy
\* 0 <= col < w, so that the span [col/w, (col+1)/w] has 0 <= x0 < x1 <= 1.
C19_Spans ==
  lay_done =>
    /\ DOMAIN lay_layout = LayIds
    /\ \A id \in LayIds :
         /\ Cardinality(LayGroupsOf(id)) = 1
         /\ 0 <= lay_layout[id].col
         /\ lay_layout[id].col < lay_layout[id].width
         /\ lay_layout[id].col + 1 <= lay_layout[id].width

\* three events that overlap each other: the third column of a group of
\* width three is used
C19_Witness ==
  /\ lay_done
  /\ Len(lay_events) = 3
  /\ \E id \in DOMAIN lay_layout :
       lay_layout[id].col = 2 /\ lay_layout[id].width = 3
  /\ \E id \in DOMAIN lay_layout : lay_layout[id].col = 0

\* the position in the input of the event with this start and end
LayIndexOf(start, end) ==
  CHOOSE i \in DOMAIN lay_events :
    lay_events[i].start = start /\ lay_events[i].end = end

\* the input is, in some order, the events [09:00,10:00), [09:30,10:30) and
\* [10:00,11:00), in half hours from 09:00
LayThreeEvents ==
  /\ Len(lay_events) = 3
  /\ {<<lay_events[i].start, lay_events[i].end>> : i \in DOMAIN lay_events}
       = {<<0, 2>>, <<1, 3>>, <<2, 4>>}

\* C20: for the events [09:00,10:00), [09:30,10:30) and [10:00,11:00) compute
\* gives one group of width 2; the first two events are in the two different
\* columns, and the third is in a column other than the one of the second.
C20_ThreeEvents ==
  lay_done /\ LayThreeEvents =>
    LET a == lay_layout[lay_events[LayIndexOf(0, 2)].id]
        b == lay_layout[lay_events[LayIndexOf(1, 3)].id]
        c == lay_layout[lay_events[LayIndexOf(2, 4)].id]
    IN /\ a.group = b.group /\ b.group = c.group
       /\ a.width = 2 /\ b.width = 2 /\ c.width = 2
       /\ {a.col, b.col} = {0, 1}
       /\ c.col # b.col

\* the layout of the three events was computed, and the third event shares
\* the column of the first, which it only touches
C20_Witness ==
  /\ lay_done /\ LayThreeEvents
  /\ lay_layout[lay_events[LayIndexOf(2, 4)].id].col
       = lay_layout[lay_events[LayIndexOf(0, 2)].id].col
  /\ lay_layout[lay_events[LayIndexOf(1, 3)].id].col = 1

\* the last call asked for the value the event already had
MvSameValue ==
  \/ mv_op = "move_event_start" /\ mv_arg = mv_prev.start
  \/ mv_op = "move_event_end" /\ mv_arg = mv_prev.end
  \/ mv_op = "move_event" /\ mv_arg = mv_prev.start

\* C21: a call of move_event_start, move_event_end or move_event with the
\* value the event already has leaves start, end, changed and modified_at
\* (every field) as they were, and so does a call that repeats the call
\* before it with the same argument.
C21_Idempotent ==
  /\ MvSameValue => mv_event = mv_prev
  /\ mv_rep => mv_event = mv_prev

\* an accepted call that changed a clean event was repeated, and the event
\* kept the modification stamp of the first call
C21_Witness ==
  /\ mv_rep
  /\ mv_event = mv_prev
  /\ mv_event.changed
  /\ mv_event.modified_at = 1
  /\ mv_calls = 2
  /\ mv_arg \in {mv_event.start, mv_event.end}

\* a call with the current value on a clean event left it clean
C21_WitnessSame ==
  /\ MvSameValue
  /\ MvDuration(mv_prev) >= min_event_duration
  /\ ~ mv_event.changed

\* C22: move_event keeps the duration of the event: after every call
\* end - start is what it was before, and when the call is accepted (the
\* shifted interval is on one day) start is new_start.
C22_MoveKeepsDuration ==
  mv_op = "move_event" =>
    /\ MvDuration(mv_event) = MvDuration(mv_prev)
    /\ on_the_same_day(mv_arg, mv_arg + MvDuration(mv_prev)) =>
         mv_event.start = mv_arg

\* an event of at least min_event_duration was moved to another start
C22_Witness ==
  /\ mv_op = "move_event"
  /\ MvChanged
  /\ MvDuration(mv_prev) >= min_event_duration
  /\ mv_event.start = mv_arg
  /\ mv_event.end = mv_arg + MvDuration(mv_prev)

\* the last tick reached show
AppShown == \E i \in DOMAIN ap_log : ap_log[i] = ShowMark

\* the last tick was an undo, shown, on the History h
AppUndo == AppShown /\ ap_act.kind = "undo"

\* C23: an undo attempted while the History is empty changes nothing: the
\* Event Store, dirty flags included, is as it was shown, and the History is
\* still empty
C23_EmptyUndo ==
  (AppUndo /\ ap_pre.loaded_history = << >>) =>
    /\ ap_pre.acted = ap_pre.shown
    /\ ap_history = << >>

\* an undo on an empty History over a store that holds a dirty event
C23_Witness ==
  /\ AppUndo
  /\ ap_pre.loaded_history = << >>
  /\ \E i \in DOMAIN ap_pre.shown : ap_pre.shown[i].deleted
  /\ \E i \in DOMAIN ap_pre.shown : ~ ap_pre.shown[i].deleted
  /\ ap_pre.acted = ap_pre.shown

\* the last tick committed an event or deleted one
AppCommitted == AppShown /\ ap_act.kind \in {"title", "commit_new", "delete"}

\* the Change the commit or the deletion of the last tick made
AppChange ==
  IF ap_act.kind = "title"
  THEN Change_new_changed(ap_pre.shown,
         [ap_pre.shown[ap_act.i] EXCEPT !.title = ap_act.title])
  ELSE IF ap_act.kind = "commit_new"
  THEN Added([ap_pre.ie EXCEPT !.title = ap_act.title])
  ELSE Removed(ap_pre.shown[ap_act.i])

\* C24: the History is a single-direction stack: a commit pushes exactly one
\* Change on top; an undo on a non-empty History removes exactly the top
\* Change and applies its reverse; an undo never pushes; so the length moves
\* by +1 at each commit, by -1 at each such undo, and is k - j after k
\* commits and j undos
C24_Stack ==
  LET h == ap_pre.loaded_history
  IN /\ AppCommitted => ap_history = Append(h, AppChange)
     /\ (AppUndo /\ h # << >>) =>
          /\ ap_history = SubSeq(h, 1, Len(h) - 1)
          /\ ap_pre.acted =
               Change_apply(Change_reverse(h[Len(h)]), ap_pre.shown, ap_tick)
     /\ AppUndo => Len(ap_history) <= Len(h)
     /\ (AppShown /\ ~ AppCommitted /\ ~ AppUndo) => ap_history = h

\* an undo that took the newer of two different Changes and left the older
C24_Witness ==
  /\ AppUndo
  /\ Len(ap_pre.loaded_history) = 2
  /\ ap_pre.loaded_history[1] # ap_pre.loaded_history[2]
  /\ ap_history = <<ap_pre.loaded_history[1]>>
  /\ ap_pre.acted # ap_pre.shown

\* the last tick replaced the Event Store by what get_events returned
AppReloaded ==
  /\ AppShown
  /\ \E i \in DOMAIN ap_log : ap_log[i] = <<"get_events", NoId>>

\* C25: whenever the Event Store is bulk-replaced by a reload, after a scope
\* change or a refresh, the History is empty afterwards, and an undo that
\* follows applies no Change recorded against the replaced store
C25_ReloadClears ==
  AppReloaded =>
    /\ ap_pre.loaded = ap_pre.disk
    /\ ap_pre.loaded_history = << >>
    /\ ap_act.kind = "undo" => ap_pre.acted = ap_pre.shown

\* a reload over a History that held a Change, followed by the undo key
C25_Witness ==
  /\ AppReloaded
  /\ ap_pre.history # << >>
  /\ ap_pre.loaded_history = << >>
  /\ ap_act.kind = "undo"
  /\ ap_pre.loaded # << >>
  /\ ap_events = ap_pre.loaded

\* the last tick ran to its end: apply_event_changes returned Ok
AppFlushedOk == AppShown /\ ap_ok

\* the ids of the events of a store
AppIds(events) == {events[i].id : i \in DOMAIN events}

\* the events of a store that are not marked deleted
AppLive(events) == {i \in DOMAIN events : ~ events[i].deleted}

\* C26: after apply_event_changes returns Ok no event of the Event Store has
\* its changed or its deleted flag set, and every event that was marked
\* deleted before the flush is gone from the store, the others remaining
C26_CleanAfterFlush ==
  AppFlushedOk =>
    /\ \A i \in DOMAIN ap_events :
         ~ ap_events[i].changed /\ ~ ap_events[i].deleted
    /\ \A j \in DOMAIN ap_pre.flush_in :
         ap_pre.flush_in[j].deleted =>
           ap_pre.flush_in[j].id \notin AppIds(ap_events)
    /\ AppIds(ap_events) =
         {ap_pre.flush_in[j].id : j \in AppLive(ap_pre.flush_in)}
    /\ Len(ap_events) = Cardinality(AppLive(ap_pre.flush_in))

\* a flush that returned Ok on a store with a deleted and a changed event
C26_Witness ==
  /\ AppFlushedOk
  /\ \E j \in DOMAIN ap_pre.flush_in : ap_pre.flush_in[j].deleted
  /\ \E j \in DOMAIN ap_pre.flush_in :
       ap_pre.flush_in[j].changed /\ ~ ap_pre.flush_in[j].deleted
  /\ Len(ap_events) = 1
  /\ Len(ap_pre.flush_in) = 2

\* the position of show in the log of the last tick
AppShowAt == CHOOSE i \in DOMAIN ap_log : ap_log[i] = ShowMark

\* the backend calls of the flush of the last tick
AppFlushCalls == SubSeq(ap_log, AppShowAt + 1, Len(ap_log))

\* how often the flush of the last tick made the call
AppCount(name, id) ==
  Cardinality({i \in DOMAIN AppFlushCalls : AppFlushCalls[i] = <<name, id>>})

\* C27: in one successful flush the backend is called exactly once per dirty
\* event and never for a clean one: delete_event for an event with deleted
\* set, changed set or not, update_event for an event with changed set and
\* deleted clear; and a frame that changes nothing after a successful flush
\* writes nothing
C27_OncePerDirty ==
  /\ AppFlushedOk =>
       /\ \A j \in DOMAIN ap_pre.flush_in :
            LET e == ap_pre.flush_in[j]
            IN /\ AppCount("delete_event", e.id) =
                    (IF e.deleted THEN 1 ELSE 0)
               /\ AppCount("update_event", e.id) =
                    (IF e.changed /\ ~ e.deleted THEN 1 ELSE 0)
       /\ Len(AppFlushCalls) =
            Cardinality({j \in DOMAIN ap_pre.flush_in :
                           ap_pre.flush_in[j].deleted
                             \/ ap_pre.flush_in[j].changed})
  /\ (AppFlushedOk /\ ~ AppReloaded
        /\ ap_act.kind \in {"none", "new", "refresh", "scope"}) =>
       AppFlushCalls = << >>

\* a successful flush over an event that is both changed and deleted and a
\* clean event: one delete_event and nothing else
C27_Witness ==
  /\ AppFlushedOk
  /\ Len(ap_pre.flush_in) = 2
  /\ \E j \in DOMAIN ap_pre.flush_in :
       /\ ap_pre.flush_in[j].deleted /\ ap_pre.flush_in[j].changed
       /\ AppFlushCalls = <<<<"delete_event", ap_pre.flush_in[j].id>>>>
  /\ \E j \in DOMAIN ap_pre.flush_in :
       ~ ap_pre.flush_in[j].deleted /\ ~ ap_pre.flush_in[j].changed

\* a successful flush that wrote a changed event with update_event
C27_WitnessUpdate ==
  /\ AppFlushedOk
  /\ \E j \in DOMAIN ap_pre.flush_in :
       /\ ap_pre.flush_in[j].changed /\ ~ ap_pre.flush_in[j].deleted
       /\ AppFlushCalls = <<<<"update_event", ap_pre.flush_in[j].id>>>>

\* a backend call of the flush of the last tick returned Err
AppFlushFailed == AppShown /\ ~ ap_ok

\* C28: when a backend call fails during a flush, the dirty flags remain
\* set, no deleted event is removed from the store, and the same pending
\* changes are retried by the next flush: there is a next tick
C28_AsStated ==
  AppFlushFailed =>
    /\ ap_events = ap_pre.flush_in
    /\ ap_tick < MaxAppTicks => ENABLED AppUpdate

\* what the failed flush does leave: the store as it entered the flush,
\* every dirty flag set, and the calls before the failing one made
C28_StoreKept ==
  AppFlushFailed =>
    /\ ap_events = ap_pre.flush_in
    /\ AppFlushCalls # << >>
    /\ \E j \in DOMAIN ap_events :
         ap_events[j].changed \/ ap_events[j].deleted

\* a flush whose second call failed after its first had written an event
C28_WitnessPartial ==
  /\ AppFlushFailed
  /\ Len(AppFlushCalls) = 2
  /\ ap_disk # ap_pre.disk
  /\ ap_events = ap_pre.flush_in

\* C29: an event of the Event Store whose title is empty is marked deleted
\* when the schedule has been shown and is gone after the next successful
\* flush; no event leaves the store before a flush succeeds; an event that is
\* only the scratch copy of the InteractingEvent, its title still empty, is
\* neither marked nor removed
C29_EmptyTitles ==
  /\ AppShown =>
       /\ \A j \in DOMAIN ap_pre.flush_in :
            ap_pre.flush_in[j].title = "" => ap_pre.flush_in[j].deleted
       /\ AppIds(ap_pre.loaded) \subseteq AppIds(ap_pre.flush_in)
       /\ Len(ap_pre.flush_in) >= Len(ap_pre.loaded)
  /\ AppFlushedOk => \A i \in DOMAIN ap_events : ap_events[i].title # ""
  /\ AppFlushFailed => ap_events = ap_pre.flush_in
  /\ (AppShown /\ ap_act.kind = "new") =>
       /\ ap_ie # NoEvent
       /\ ap_ie.title = ""
       /\ ~ ap_ie.deleted
       /\ ap_ie.id \notin AppIds(ap_pre.flush_in)
  /\ (AppShown /\ ap_pre.ie # NoEvent /\ ap_act.kind # "commit_new") =>
       ap_ie = ap_pre.ie

\* a successful flush removed an event whose title was edited to nothing
\* while the scratch copy of a new event, its title empty, stayed
C29_Witness ==
  /\ AppFlushedOk
  /\ ap_act.kind = "title"
  /\ \E j \in DOMAIN ap_pre.flush_in :
       /\ ap_pre.flush_in[j].title = ""
       /\ ap_pre.flush_in[j].deleted
       /\ ap_pre.flush_in[j].id \in AppIds(ap_pre.loaded)
       /\ ap_pre.flush_in[j].id \notin AppIds(ap_events)
  /\ ap_pre.ie # NoEvent
  /\ ap_ie = ap_pre.ie
  /\ ap_ie.title = ""

\* an event loaded with an empty title is removed in the tick that loads it
C29_WitnessLoaded ==
  /\ AppFlushedOk
  /\ \E j \in DOMAIN ap_pre.loaded : ap_pre.loaded[j].title = ""
  /\ Len(ap_events) < Len(ap_pre.loaded)
  /\ ap_act.kind = "none"

\* C30: in every tick in which refresh_requested is set, update calls
\* force_refresh, then get_events for a full reload of the Event Store, then
\* shows the schedule, in that order, and refresh_requested and scope_updated
\* are both false when the reload is done (after show they are set only
\* if the user asked again); a reload with scope_updated alone calls
\* get_events and not force_refresh; with neither flag there is no call
C30_RefreshThenReload ==
  AppShown =>
    /\ ap_pre.refresh =>
         /\ Len(ap_log) >= 3
         /\ SubSeq(ap_log, 1, 3) =
              <<<<"force_refresh", NoId>>, <<"get_events", NoId>>, ShowMark>>
         /\ ap_pre.loaded = ap_pre.disk
    /\ (ap_pre.scope /\ ~ ap_pre.refresh) =>
         /\ Len(ap_log) >= 2
         /\ SubSeq(ap_log, 1, 2) = <<<<"get_events", NoId>>, ShowMark>>
         /\ ap_pre.loaded = ap_pre.disk
    /\ (~ ap_pre.scope /\ ~ ap_pre.refresh) =>
         /\ ap_log[1] = ShowMark
         /\ ap_pre.loaded = ap_pre.events
    /\ \A i \in DOMAIN ap_log :
         /\ ap_log[i][1] = "force_refresh" => i = 1 /\ ap_pre.refresh
         /\ ap_log[i][1] = "get_events" => i <= 2
    /\ ap_refresh = (ap_act.kind = "refresh")
    /\ ap_scope = (ap_act.kind \in {"refresh", "scope"})

\* a refresh asked for from the context menu over a store that differs from
\* what the backend holds: force_refresh, get_events, show
C30_Witness ==
  /\ AppShown
  /\ ap_tick >= 2
  /\ ap_pre.refresh
  /\ ap_pre.history # << >>
  /\ ap_log[1] = <<"force_refresh", NoId>>
  /\ ap_log[2] = <<"get_events", NoId>>
  /\ ap_log[3] = ShowMark
  /\ ~ ap_refresh /\ ~ ap_scope

\* a reload after a change of scope: get_events without force_refresh
C30_WitnessScope ==
  /\ AppShown
  /\ ap_pre.scope /\ ~ ap_pre.refresh
  /\ ap_log[1] = <<"get_events", NoId>>
  /\ ap_log[2] = ShowMark
  /\ ~ ap_scope

\* the stored events that overlap the range of the last get_events
BkOverlapping ==
  {e \in bk_files : e.start <= bk_range.to /\ bk_range.from <= e.end}

\* C31: get_events(from, to) returns exactly the stored events that overlap
\* from..to for both backends: LocalDir and IndexedLocalDir give the same set
\* for the same directory and range, events partly inside the range included
C31_AsStated ==
  bk_op = "get_events" =>
    /\ bk_local = BkOverlapping
    /\ bk_indexed = bk_local

\* LocalDir alone returns the overlapping events
C31_LocalDir == bk_op = "get_events" => bk_local = BkOverlapping

\* IndexedLocalDir returns the events that lie wholly inside the range
C31_IndexedInside ==
  bk_op = "get_events" =>
    bk_indexed = {e \in bk_files :
                    bk_range.from <= e.start /\ e.end <= bk_range.to}

\* the last frame ran handle_hotkeys while an InteractingEvent existed
GsInteracting == gs_tick > 0 /\ gs_hot.before.ie # NoEvent

\* C32: in a frame in which an InteractingEvent exists handle_hotkeys moves
\* no focus, moves and resizes no event, creates no event and asks for no
\* deletion: the Event Store, the InteractingEvent and the pending
\* DeletedEvent are as it found them
C32_HotkeysGuarded == GsInteracting => gs_hot.after = gs_hot.before

\* Ctrl+Down with the focus on a stored event while another interaction is
\* going on: nothing moves
C32_Witness ==
  /\ GsInteracting
  /\ gs_in.kind = "key" /\ gs_in.mods = "ctrl" /\ gs_in.key = "down"
  /\ FindFirst(gs_hot.before.events, gs_hot.before.focus) # 0
  /\ gs_hot.after.events = gs_prev.events
  /\ gs_ie = gs_prev.ie

\* the n key and the x key while an interaction is going on
C32_WitnessNewDelete ==
  /\ GsInteracting
  /\ gs_in.kind = "key" /\ gs_in.key \in {"n", "x"}
  /\ FindFirst(gs_hot.before.events, gs_hot.before.focus) # 0
  /\ gs_hot.after.deleted = NoId

\* the states interact_event has an arm for
UiDraggingStates == {"Dragging", "DraggingEventStart", "DraggingEventEnd"}

\* C33: the state of the stored InteractingEvent is Editing, Dragging,
\* DraggingEventStart or DraggingEventEnd and never EventCloning, so that
\* interact_event, which put_interacting_event_block calls with the stored
\* state when that is not Editing, only gets a state it has an arm for
C33_StoredStates ==
  /\ ui_ie # NoIE => ui_ie.state \in UiDraggingStates \cup {"Editing"}
  /\ ui_ie.state # "EventCloning"
  /\ (ui_ie # NoIE /\ ui_ie.state # "Editing") =>
       ui_ie.state \in UiDraggingStates

\* interact_event_region answered EventCloning and the duplicate was stored
\* as Dragging
C33_Witness ==
  /\ ui_res.state = "EventCloning"
  /\ ui_ie # NoIE
  /\ ui_ie.state = "Dragging"
  /\ ui_ie.event.id # ui_res.widget

\* C34: from a store of single-day events, every sequence of gestures
\* (drag-create, move, resize, clone, keyboard move and resize, undo) leaves
\* every stored event and the InteractingEvent single-day, so layout_type
\* never reaches its unimplemented!() arm
C34_SingleDay ==
  /\ \A i \in DOMAIN gs_events : layout_type(gs_events[i]) = "Single"
  /\ gs_ie # NoEvent => layout_type(gs_ie) = "Single"

\* a drag that would carry the event over midnight was refused
C34_Witness ==
  /\ gs_tick > 0
  /\ gs_in.kind = "drag"
  /\ gs_in.t = 85500
  /\ gs_ie # NoEvent
  /\ gs_ie.end - gs_ie.start = 1800
  /\ gs_ie.start # gs_in.t

\* a keyboard resize of the focused event over midnight was refused
C34_WitnessKeyboard ==
  /\ gs_tick > 0
  /\ gs_in.kind = "key"
  /\ gs_in.mods = "shift"
  /\ gs_in.key = "down"
  /\ \E i \in DOMAIN gs_events :
       /\ gs_events[i].id = gs_focus
       /\ gs_events[i].end = MidnightOf(1)

\* C35: no pending edit is lost by a reload: at every bulk replacement of
\* the Event Store by load_events, the store that is replaced holds no event
\* with its changed or its deleted flag set, the flush of a tick running
\* after its mutations and before the reload of the next tick
C35_NoPendingEdit ==
  AppReloaded =>
    \A i \in DOMAIN ap_pre.events :
      ~ ap_pre.events[i].changed /\ ~ ap_pre.events[i].deleted

\* a reload in a later tick, over a store that was edited and flushed
C35_Witness ==
  /\ AppReloaded
  /\ ap_tick >= 2
  /\ ap_pre.history # << >>
  /\ ap_pre.events # << >>
  /\ ap_act.kind = "none"

\* no two events of the store that are not marked deleted have the same id
HsUniqueLive ==
  \A i, j \in DOMAIN hs_events :
    (/\ ~ hs_events[i].deleted
     /\ ~ hs_events[j].deleted
     /\ hs_events[i].id = hs_events[j].id) => i = j

C36_WitnessStale ==
  /\ hs_stale
  /\ ~ HsUniqueLive
  /\ hs_history = << >>

\* the last frame was a user action other than the undo key and it changed
\* the start, end, title or existence of a stored event
GsStoreChanged ==
  /\ gs_tick > 0
  /\ gs_in.kind # "ctrl_z"
  /\ LiveBag(gs_events) # LiveBag(gs_prev.events)

\* the last frame pushed one Change and an undo takes the store back
GsRecorded ==
  /\ Len(gs_history) = Len(gs_prev.history) + 1
  /\ LiveBag(handle_undo(gs_events, gs_history, gs_tick + 1).events) =
       LiveBag(gs_prev.events)

\* C38 as stated: every change a user action (a mouse gesture, a delete, a
\* keyboard move or resize) makes to the start, end, title or existence of a
\* stored event is recorded as exactly one Change in the History, so that a
\* following undo reverts it
C38_AsStated == GsStoreChanged => GsRecorded

\* the part of C38 the code keeps: a change made by a committed interaction
\* or by a delete request is recorded as one Change
C38_CommitsRecorded ==
  (GsStoreChanged /\ ~ (gs_in.kind = "key" /\ gs_in.mods \in {"ctrl", "shift"}))
    => GsRecorded

\* every event handed to compute has positive duration
LayPositive ==
  \A i \in DOMAIN lay_events : lay_events[i].start < lay_events[i].end

\* the events of the input that compute put in the group g
LayMembers(g) ==
  {i \in DOMAIN lay_events : lay_layout[lay_events[i].id].group = g}

\* the largest number of events of the group g that are active (start <= t
\* and t < end) at one instant t
LayDepth(g) ==
  LET at(t) == Cardinality({i \in LayMembers(g) :
                              lay_events[i].start <= t /\ t < lay_events[i].end})
  IN CHOOSE d \in 0..MaxLayEvents :
       /\ \E t \in LayTimes : at(t) = d
       /\ \A t \in LayTimes : at(t) <= d

\* C39: for every input with positive durations, events that compute puts in
\* different groups never overlap in time, and the final width of each group
\* is the largest number of its events that are active at one instant
C39_GroupsAndWidths ==
  (lay_done /\ LayPositive) =>
    /\ \A i, j \in DOMAIN lay_events :
         lay_layout[lay_events[i].id].group # lay_layout[lay_events[j].id].group
           => ~ overlaps(lay_events[i], lay_events[j])
    /\ \A i \in DOMAIN lay_events :
         lay_layout[lay_events[i].id].width =
           LayDepth(lay_layout[lay_events[i].id].group)

\* two groups, one of them with two events that are active together and a
\* width of two, the other with one event that touches the first group
C39_Witness ==
  /\ lay_done /\ LayPositive
  /\ Len(lay_events) = 3
  /\ \E i, j, k \in DOMAIN lay_events :
       /\ lay_layout[lay_events[i].id].group = lay_layout[lay_events[j].id].group
       /\ i # j
       /\ lay_layout[lay_events[i].id].width = 2
       /\ lay_layout[lay_events[k].id].group # lay_layout[lay_events[i].id].group
       /\ lay_layout[lay_events[k].id].width = 1
       /\ lay_events[k].start = lay_events[i].end

\* the thread waits in Mutex::lock for a mutex that is held
LkBlocked(t) ==
  /\ lk_todo[t] # << >>
  /\ Head(lk_todo[t]).op = "lock"
  /\ \E u \in LkThreads :
       \E i \in DOMAIN lk_held[u] : lk_held[u][i] = Head(lk_todo[t]).m

\* the thread holds both mutexes
LkHoldsBoth(t) ==
  /\ \E i \in DOMAIN lk_held[t] : lk_held[t][i] = "context"
  /\ \E i \in DOMAIN lk_held[t] : lk_held[t][i] = "backend"

\* C37: the UI thread and the timer thread never deadlock on the backend
\* mutex and the context mutex: while a call is running some thread can take
\* its next step; a thread that holds both took the context first; and the
\* UI thread does not hold the backend when it asks for the notifier or for
\* the context
C37_NoDeadlock ==
  /\ (\E t \in LkThreads : lk_todo[t] # << >>) =>
       \E t \in LkThreads : lk_todo[t] # << >> /\ ~ LkBlocked(t)
  /\ \A t \in LkThreads :
       LkHoldsBoth(t) =>
         \E i, j \in DOMAIN lk_held[t] :
           i < j /\ lk_held[t][i] = "context" /\ lk_held[t][j] = "backend"
  /\ \A t \in LkThreads :
       (/\ lk_todo[t] # << >>
        /\ Head(lk_todo[t]).op = "lock"
        /\ Head(lk_todo[t]).m \in {"notifier", "context"}) =>
         \A i \in DOMAIN lk_held[t] : lk_held[t][i] # "backend"
  /\ \A t \in LkThreads : lk_todo[t] = << >> => lk_held[t] = << >>

\* the UI thread is inside events_updated and holds the context and the
\* backend while the timer thread waits for the context
C37_Witness ==
  /\ lk_held["ui"] = <<"notifier", "context", "backend">>
  /\ LkBlocked("timer")
  /\ Head(lk_todo["timer"]).m = "context"

\* the timer thread holds the context and waits for the backend, which the
\* UI thread holds for its flush
C37_WitnessTimer ==
  /\ lk_held["timer"] = <<"context">>
  /\ LkBlocked("timer")
  /\ lk_held["ui"] = <<"backend">>

\* two DateTimes are the same instant at the precision of a second
IcSameSecond(t1, t2) == t1.utc \div 2 = t2.utc \div 2

\* the event was written and read back, and parse returned Ok with the id,
\* title, start, end, created_at and modified_at of the event written
IcReadBack ==
  /\ ic_step = "read"
  /\ ic_read.ok
  /\ ic_read.id = ic_event.id
  /\ ic_read.title = ic_event.title
  /\ IcSameSecond(ic_read.start, ic_event.start)
  /\ IcSameSecond(ic_read.end, ic_event.end)
  /\ IcSameSecond(ic_read.created_at, ic_event.created_at)
  /\ IcSameSecond(ic_read.modified_at, ic_event.modified_at)

\* C40 as stated: ICal.parse(calendar, ICal.generate(e)) succeeds and gives
\* an event equal to e on id, title, description, start, end, created_at
\* and modified_at, the times compared as instants at second precision
C40_AsStated ==
  ic_step = "read" =>
    IcReadBack /\ ic_read.description = ic_event.description

\* the part of C40 the code keeps: every field of the claim but the
\* description comes back
C40_OtherFields == ic_step = "read" => IcReadBack

=============================================================================
